---- MODULE Spec2Model ----
(***************************************************************************)
(* ServiceM8 <-> GoHighLevel bridge (src/server.js, lines 1-742): the two  *)
(* poll routines checkNewContacts and checkPaymentStatus, the state store  *)
(* loadState / saveState over state.json, the triggers that start the      *)
(* routines (two cron schedules and two /test-* endpoints), and the intake *)
(* endpoint /ghl-create-job.                                               *)
(*                                                                         *)
(* The program runs on one Node.js event loop: code between two awaits is  *)
(* atomic, every await is a point where other callbacks run.  Each action  *)
(* below is one such atomic segment: from the completion of one awaited    *)
(* call to the issue of the next one.                                      *)
(*                                                                         *)
(* Strings are sequences of one-character strings, so that toLowerCase,    *)
(* trim, template concatenation and the regular expression are computed.   *)
(* The fields of a record returned by ServiceM8 are drawn at the step      *)
(* that first reads them: the handler is their only reader.                *)
(***************************************************************************)
EXTENDS Integers, Sequences, FiniteSets, TLC

(***************************************************************************)
(* Bounds of the model.                                                    *)
(***************************************************************************)
\* Poll cycles started over one behaviour (cron ticks and /test-* requests).
MaxCycles == 2
\* Process restarts (the in-memory state is lost, state.json stays).
MaxRestarts == 1
\* Last value of the wall clock; one unit is the 20 minute lookback.
MaxTime == 1
\* Longest list a ServiceM8 list endpoint returns.
MaxBatch == 2
\* Cycles in progress at the same time, of both routines together.
MaxRunning == 2
\* /ghl-create-job requests received over one behaviour.
MaxRequests == 2
\* Photos a GHL contact holds.
MaxPhotos == 1
\* Photos a GHL contact holds where the photos of one request are compared.
MaxSiblings == 2
\* Last value of the millisecond clock; one unit is 2500 ms.
MaxClock == 3

(***************************************************************************)
(* Program constants.                                                      *)
(***************************************************************************)
\* subtract(20, 'minutes'): the lookback, in clock units.
Lookback == 1
\* moment('2025-05-24'): the completion cutoff, as a day number.
Cutoff == 2
\* now - lastProcessed < 5000: the debounce window, in units of 2500 ms.
DebounceWindow == 2

(***************************************************************************)
(* Strings.                                                                *)
(***************************************************************************)
\* The empty string (falsy in JavaScript, like undefined and null).
Empty == <<>>
\* undefined: no sequence of characters equals it.
Undefined == <<"undefined">>

Truthy(s) == s # Empty /\ s # Undefined

\* s || '' : the operand or the empty string.
OrEmpty(s) == IF Truthy(s) THEN s ELSE Empty

UpperChars == <<"A", "C", "D", "J", "Q", "X", "N">>
LowerChars == <<"a", "c", "d", "j", "q", "x", "n">>

ToLowerChar(c) ==
    IF \E k \in DOMAIN UpperChars : UpperChars[k] = c
    THEN LowerChars[CHOOSE k \in DOMAIN UpperChars : UpperChars[k] = c]
    ELSE c

\* String.prototype.toLowerCase
ToLowerCase(s) == [k \in DOMAIN s |-> ToLowerChar(s[k])]

IsSpace(c) == c \in {" ", "\n"}

RECURSIVE TrimStart(_)
TrimStart(s) ==
    IF s # <<>> /\ IsSpace(Head(s)) THEN TrimStart(Tail(s)) ELSE s

RECURSIVE TrimEnd(_)
TrimEnd(s) ==
    IF s # <<>> /\ IsSpace(s[Len(s)]) THEN TrimEnd(SubSeq(s, 1, Len(s) - 1)) ELSE s

\* String.prototype.trim
Trim(s) == TrimEnd(TrimStart(s))

(***************************************************************************)
(* Identifiers and the values the two remote systems hand out.             *)
(***************************************************************************)
Pay1 == <<"p", "1">>
Pay2 == <<"p", "2">>
PaymentIds == {Pay1, Pay2}

Con1 == <<"c", "1">>
Con2 == <<"c", "2">>
ContactIds == {Con1, Con2}

\* A GHL contact id, as /ghl-create-job embeds it in a job description.
Ghl1 == <<"g", "1">>
\* 'GHL Contact ID: ' (the marker of the regular expression, line 322).
Marker == <<"G", "H", "L", " ", "C", "o", "n", "t", "a", "c", "t", " ", "I", "D", ":", " ">>

AlnumChars == {"a", "c", "d", "g", "j", "p", "q", "x", "A", "C", "D", "J", "Q", "X", "1", "2", "3"}

StrCompleted == <<"C", "o", "m", "p", "l", "e", "t", "e", "d">>
StrCompletedLower == <<"c", "o", "m", "p", "l", "e", "t", "e", "d">>
StrQuote == <<"Q", "u", "o", "t", "e">>

EmailA == <<"a", "@", "x">>
\* The same address as GHL or ServiceM8 may hold it: other case, padded.
EmailAPadded == <<" ", "A", "@", "X">>

\* The company contacts of ServiceM8 (GET /companycontact.json): Con1 has a
\* name and an e-mail, Con2 has neither.
ContactRecord(uuid) ==
    IF uuid = Con1
    THEN [first |-> <<"J">>, last |-> <<"A">>, email |-> EmailA]
    ELSE [first |-> Empty, last |-> Undefined, email |-> Undefined]

\* The contacts GHL may hold when the program starts (name and e-mail of each;
\* no code reads back anything else of a GHL contact): none, or one that has
\* the address of Con1 in another case and padded.
GhlContacts == {{}, {[name |-> <<"J", " ", "A">>, email |-> EmailAPadded]}}

\* GHL contact ids as requests to /ghl-create-job carry them: two made of
\* letters and digits, one with a hyphen.
Ghl2 == <<"g", "2">>
GhlDashed == <<"g", "-", "1">>
GhlIds == {Ghl1, Ghl2, GhlDashed}

\* 'quotes - new' (line 102), and queue names as ServiceM8 holds them.
StrQuotesNewLower == <<"q", "u", "o", "t", "e", "s", " ", "-", " ", "n", "e", "w">>
StrQuotesNew == <<"Q", "u", "o", "t", "e", "s", " ", "-", " ", "N", "e", "w", " ">>
StrOtherQueue == <<"J", "o", "b", "s">>
\* The answers to GET /queue.json: the name of each queue, in list order.
QueueLists == {<<StrOtherQueue>>, <<StrOtherQueue, StrQuotesNew>>}
\* queue.uuid of the 'Quotes - New' queue.
QueueUuid == <<"q", "n">>

\* 'Message: ' (line 518)
StrMessage == <<"M", "e", "s", "s", "a", "g", "e", ":", " ">>

\* req.body of a /ghl-create-job request: a complete one, the same for
\* another GHL contact, and one without e-mail.
BodyA == [firstName |-> <<"J">>, lastName |-> <<"A">>, email |-> EmailAPadded,
          ghlContactId |-> Ghl1, jobDescription |-> <<"x">>]
BodyB == [BodyA EXCEPT !.ghlContactId = Ghl2]
BodyNoEmail == [BodyA EXCEPT !.email = Undefined]
Bodies == {BodyA, BodyB, BodyNoEmail}

\* Bodies over the ids and the free texts: no text, a text, a text that
\* holds the marker.
DescriptionBodies ==
    {[BodyA EXCEPT !.ghlContactId = id, !.jobDescription = text] :
        id \in GhlIds,
        text \in {Undefined, <<"x", "1">>, <<"x", " ">> \o Marker \o Ghl2}}

\* The value of the Message custom field of a GHL contact ('' when it has
\* none): a text, a text that holds the marker.
Messages == {Empty, <<"m">>, Marker \o Ghl2}


(***************************************************************************)
(* checkPaymentStatus, step 7: job_description.match(/GHL Contact ID:      *)
(* ([a-zA-Z0-9]+)/), the first capture or ''.                              *)
(***************************************************************************)
MatchesAt(s, k) ==
    /\ k + Len(Marker) <= Len(s)
    /\ SubSeq(s, k, k + Len(Marker) - 1) = Marker
    /\ s[k + Len(Marker)] \in AlnumChars

RECURSIVE AlnumRun(_, _)
AlnumRun(s, k) ==
    IF k <= Len(s) /\ s[k] \in AlnumChars THEN <<s[k]>> \o AlnumRun(s, k + 1) ELSE <<>>

ExtractGhlContactId(description) ==
    IF ~Truthy(description) THEN Empty
    ELSE LET starts == {k \in 1..Len(description) : MatchesAt(description, k)}
         IN  IF starts = {} THEN Empty
             ELSE LET first == CHOOSE k \in starts : \A m \in starts : k <= m
                  IN  AlnumRun(description, first + Len(Marker))

(***************************************************************************)
(* What the remote systems may answer.                                     *)
(***************************************************************************)
\* Lists without repetition of at most n elements of S.
RECURSIVE ListsOf(_, _)
ListsOf(S, n) ==
    IF n = 0 THEN {<<>>}
    ELSE LET shorter == ListsOf(S, n - 1)
         IN  shorter \cup {Append(l, x) : l \in shorter, x \in S}

DistinctLists(S, n) ==
    {l \in ListsOf(S, n) : \A a, b \in DOMAIN l : a # b => l[a] # l[b]}

\* job.status as ServiceM8 returns it; Undefined is a record without the field.
JobStatuses == {StrCompleted, StrQuote, Undefined}
\* job.edit_date and activity.end_date, as day numbers around the cutoff.
JobDates == {Cutoff - 1, Cutoff}
\* activity.end_date of an activity that has not ended (a falsy value).
NoDate == 0
EndDates == {NoDate} \cup JobDates
\* The activities of a job: the end_date of each.
ActivityLists == ListsOf(EndDates, MaxBatch)
\* job.job_description: none, free text, or the text /ghl-create-job writes.
JobDescriptions == {Undefined, <<"x">>, Marker \o Ghl1 \o <<"\n">> \o <<"x">>}
\* job.company_uuid
CompanyUuids == {Undefined, <<"q", "1">>}
\* email of the company's contacts, in list order, as ServiceM8 holds them.
CompanyContactLists == {<<>>, <<Empty>>, <<EmailAPadded>>, <<Empty, EmailA>>}
\* payment.active, payment.amount, payment.edit_date
ActiveValues == {0, 1}
AmountValues == {0, 1}

(***************************************************************************)
(* State.                                                                  *)
(***************************************************************************)
PaySlots == {"payA", "payB"}
ConSlots == {"conA", "conB"}
Slots == PaySlots \cup ConSlots

VARIABLES
    processedJobs,      \* let processedJobs = new Set()          (line 52)
    processedContacts,  \* let processedContacts = new Set()      (line 53)
    stateFile,          \* the contents of state.json             (line 55)
    now,                \* Date.now() and moment(), in clock units
    pc,                 \* per running cycle: the await it is suspended at
    batch,              \* per running cycle: the entities not yet finished
    loc,                \* per running cycle: its local variables
    ghl,                \* the contacts GHL holds
    cycles,             \* cycles started so far
    restarts,           \* restarts so far
    webhookOk,          \* history: webhook POSTs answered 2xx, per payment (2: two or more)
    hist,               \* history of the running cycle, per slot
    lastHandled,        \* history: the contacts the last contact cycle recorded, while
                        \* no contact cycle overlapped it or its successor
    lastFailed,         \* history: the entities whose Target call failed in the last
                        \* cycle, while no cycle overlapped it or its successor
    edited,             \* ServiceM8: the edit_date of each contact and payment whose
                        \* edits are followed ({} while it has none)
    returned,           \* history: the followed entities a list fetch has returned
    contactRecords,     \* ServiceM8: first, last and email of each company contact
    processedGhlContactIds, \* const processedGhlContactIds = new Map()  (line 56)
    quotesNewQueueUuid, \* let quotesNewQueueUuid = null             (line 54)
    clock,              \* Date.now() as /ghl-create-job reads it, in units of 2500 ms
    req,                \* per /ghl-create-job request: the await its handler is
                        \* suspended at, its local variables and its history
    companies,          \* ServiceM8: the companies (uuid, name, email)
    createdJobs,        \* ServiceM8: the jobs /ghl-create-job created
    variant             \* the job-level webhook routine of an earlier variant of
                        \* the file: which one runs, its processedJobs, its
                        \* state.json, the await its cycle is suspended at

\* ServiceM8 as the list fetches see it.
sourceVars == <<edited, returned, contactRecords>>

\* The record GET /companycontact.json returns for a contact.
SourceContact(uuid) == contactRecords[uuid]

\* What /ghl-create-job reads and writes.
intakeVars == <<processedGhlContactIds, quotesNewQueueUuid, clock, req, companies,
                createdJobs>>

\* What the poll routines read and write.
pollVars == <<processedJobs, processedContacts, stateFile, now, pc, batch, loc, ghl,
              cycles, restarts, webhookOk, hist, lastHandled, lastFailed>>

\* What the job-level routines of the earlier variants read and write.
variantVars == <<variant>>

vars == <<pollVars, sourceVars, intakeVars, variantVars>>

NoState == [lastPollTimestamp |-> 0, processedJobs |-> {}, processedContacts |-> {}]

\* state.json: absent, cut short (by a write in progress, or by one that failed),
\* or whole.  Only a whole file can be parsed; `state` is then its contents, and
\* otherwise the history of what the file last held when it was whole.
FileAbsent == [kind |-> "absent", state |-> NoState]
FilePartial(file) == [kind |-> "partial", state |-> file.state]
FileJson(state) == [kind |-> "json", state |-> state]

\* state.json when the process starts: absent (first run), or as an earlier
\* run of the program left it (here: whole, with nothing recorded yet).
InitialFiles == {FileAbsent, FileJson(NoState)}

LocIdle == [since |-> 0, currentTimestamp |-> 0, contactKey |-> Empty,
            address |-> Empty, snapshot |-> NoState]

\* The history of a cycle: loadState calls, saveState calls, what it added to
\* the sets, the payments it sent a webhook for, whether and for which entities
\* a Target call failed, the outcome of the last GHL search, what its last
\* lookup read, whether its loadState took an identifier out of the sets.
\* What the last lookup of a payment cycle read: job.status ('' when no job
\* was read); whether the completion date was on or after the cutoff and the
\* payment active, above zero and edited inside the window; whether the job
\* had a company and no contact key that processedContacts held; the dates
\* the completion date was taken from, where a specification follows them.
NoDates == [activitiesOk |-> FALSE, activities |-> <<>>, editDate |-> NoDate]

NoReading == [status |-> Empty, datedAndPaid |-> FALSE, open |-> FALSE, dates |-> NoDates]

HistIdle == [reads |-> 0, writes |-> 0, addedJobs |-> {}, addedContacts |-> {},
             posted |-> {}, targetFailed |-> FALSE, failed |-> {}, search |-> "none",
             reading |-> NoReading, loadDropped |-> FALSE]

Requests == 1..MaxRequests

\* The answers of /ghl-create-job (lines 421, 429, 437, 709, 712).
NoResponse == [status |-> 0, text |-> "none", jobUuid |-> Undefined]
ResponseMissing == [status |-> 400, text |-> "Missing required fields", jobUuid |-> Undefined]
ResponseSkipped ==
    [status |-> 200, text |-> "Job creation skipped (duplicate request)", jobUuid |-> Undefined]
ResponseNoQueue ==
    [status |-> 500, text |-> "Failed to fetch \"Quotes - New\" queue UUID", jobUuid |-> Undefined]
ResponseCreated(jobUuid) ==
    [status |-> 200, text |-> "Job created successfully", jobUuid |-> jobUuid]
ResponseFailed == [status |-> 500, text |-> "Failed to create job", jobUuid |-> Undefined]

\* A request that has not come in.  pc "free": not received; "done":
\* answered; "hung": suspended at a promise nothing will settle; "lost": the
\* process ended while the handler ran.  History: receivedAt (the clock when
\* it came in), calledSource (a ServiceM8 request was issued), failed (the
\* step outside every inner try/catch that failed), optionalFailed (a step
\* inside a try/catch failed), failedPhotos (the photos given up),
\* uploadTries (the POST /Attachment.json requests issued for the photo in
\* hand), relayed (the photos whose file ServiceM8 took).  tempFiles: how
\* many of the files the handler wrote to UPLOADS_DIR exist.  attachments:
\* what the attachment records the handler created in ServiceM8 relate to.
ReqFree == [pc |-> "free", body |-> BodyA, response |-> NoResponse,
            queueUuid |-> Undefined, companyUuid |-> Undefined, message |-> Empty,
            description |-> Empty, jobUuid |-> Undefined, photos |-> 0,
            receivedAt |-> 0, calledSource |-> FALSE, failed |-> "none",
            optionalFailed |-> FALSE, tempFiles |-> 0, failedPhotos |-> 0,
            uploadTries |-> 0, attachments |-> {}, relayed |-> 0]

(***************************************************************************)
(* The job-level webhook routines of the earlier variants of the file:      *)
(* checkNewJobs (src/server.js lines 928-1036) and checkPaymentStatus of    *)
(* src/unnamed/part_003 (lines 238-370) and of src/unnamed/part_004 (lines  *)
(* 129-218).  Each is a program of its own, with its own processedJobs.     *)
(***************************************************************************)
JobA == <<"j", "1">>
JobB == <<"j", "2">>
JobIds == {JobA, JobB}

NoRoutine == "none"
CheckNewJobs == "checkNewJobs"
CheckPaymentStatus3 == "part_003"
CheckPaymentStatus4 == "part_004"
VariantRoutines == {CheckNewJobs, CheckPaymentStatus3, CheckPaymentStatus4}

\* Before any cycle: no routine chosen, empty set, no state.json; `delivered`
\* is the history of the jobs whose webhook POST was answered 2xx.
VariantIdle == [routine |-> NoRoutine, pc |-> "idle", batch |-> <<>>,
                processedJobs |-> {}, file |-> FileAbsent, delivered |-> {}, runs |-> 0]

InitOf(records) ==
    /\ processedJobs = {}
    /\ processedContacts = {}
    /\ stateFile \in InitialFiles
    /\ now = 0
    /\ pc = [i \in Slots |-> "idle"]
    /\ batch = [i \in Slots |-> <<>>]
    /\ loc = [i \in Slots |-> LocIdle]
    /\ ghl \in GhlContacts
    /\ cycles = 0
    /\ restarts = 0
    /\ webhookOk = [p \in PaymentIds |-> 0]
    /\ hist = [i \in Slots |-> HistIdle]
    /\ lastHandled = {}
    /\ lastFailed = {}
    /\ edited = [e \in PaymentIds \cup ContactIds |-> {}]
    /\ returned = {}
    /\ contactRecords = records
    /\ processedGhlContactIds = [id \in GhlIds |-> 0]
    /\ quotesNewQueueUuid = Undefined
    /\ clock = 1
    /\ req = [r \in Requests |-> ReqFree]
    /\ companies = {}
    /\ createdJobs = {}
    /\ variant = VariantIdle

Init == InitOf([uuid \in ContactIds |-> ContactRecord(uuid)])

(***************************************************************************)
(* Bookkeeping shared by the actions.                                      *)
(***************************************************************************)
\* No cycle is in progress.
Quiet == \A i \in Slots : pc[i] = "idle"

\* The slot of routine S a new cycle takes: the first one, or the second
\* while the first is running (the names of the slots mean nothing).
FreeSlot(S, i) ==
    /\ i \in S
    /\ pc[i] = "idle"
    /\ Cardinality({j \in Slots : pc[j] # "idle"}) < MaxRunning
    /\ \/ i \in {"payA", "conA"}
       \/ \E j \in S \ {i} : pc[j] # "idle"

SetSlot(i, newPc, newBatch, newLoc, newHist) ==
    /\ pc' = [pc EXCEPT ![i] = newPc]
    /\ batch' = [batch EXCEPT ![i] = newBatch]
    /\ loc' = [loc EXCEPT ![i] = newLoc]
    /\ hist' = [hist EXCEPT ![i] = newHist]

\* The routine returns (its promise settles): the cycle is over.
EndCycle(i) ==
    /\ SetSlot(i, "idle", <<>>, LocIdle, HistIdle)
    /\ lastHandled' = IF i \in PaySlots THEN lastHandled
                      ELSE IF \A j \in ConSlots \ {i} : pc[j] = "idle"
                           THEN hist[i].addedContacts
                           ELSE {}
    /\ lastFailed' = IF \A j \in Slots \ {i} : pc[j] = "idle" THEN hist[i].failed ELSE {}

(***************************************************************************)
(* saveState (lines 74-88).  JSON.stringify runs when saveState is called: *)
(* the snapshot is taken then.  fs.writeFile then opens state.json         *)
(* truncating it, writes the text and closes; an error at either point is  *)
(* caught and logged.                                                      *)
(***************************************************************************)
Snapshot(lastPollTimestamp, jobs, contacts) ==
    [lastPollTimestamp |-> lastPollTimestamp, processedJobs |-> jobs,
     processedContacts |-> contacts]

WriteOpened(i) ==
    /\ pc[i] = "saving"
    /\ \/ /\ stateFile' = FilePartial(stateFile)
          /\ pc' = [pc EXCEPT ![i] = "writing"]
          /\ UNCHANGED <<batch, loc, hist, lastHandled, lastFailed>>
       \/ /\ UNCHANGED stateFile
          /\ EndCycle(i)
    /\ UNCHANGED <<processedJobs, processedContacts, now, ghl, cycles, restarts,
                   webhookOk>>
    /\ UNCHANGED <<sourceVars, intakeVars, variantVars>>

WriteFinished(i) ==
    /\ pc[i] = "writing"
    /\ \/ stateFile' = FileJson(loc[i].snapshot)
       \/ stateFile' = FilePartial(stateFile)
    /\ EndCycle(i)
    /\ UNCHANGED <<processedJobs, processedContacts, now, ghl, cycles, restarts,
                   webhookOk>>
    /\ UNCHANGED <<sourceVars, intakeVars, variantVars>>

(***************************************************************************)
(* checkPaymentStatus (lines 232-400).                                     *)
(***************************************************************************)
\* Step 2, repeated: payments already in processedJobs are passed over.
RECURSIVE SkipProcessedJobs(_, _)
SkipProcessedJobs(payments, jobs) ==
    IF payments # <<>> /\ Head(payments) \in jobs
    THEN SkipProcessedJobs(Tail(payments), jobs)
    ELSE payments

\* The for loop goes on with the payments `rest`: it stops at the await of
\* the next job fetch (step 3) or, the list over, at saveState (step 11).
PayProceed(i, rest, jobs, contacts, h) ==
    LET todo == SkipProcessedJobs(rest, jobs)
        l == [loc[i] EXCEPT !.contactKey = Empty]
    IN  IF todo = <<>>
        THEN SetSlot(i, "saving", <<>>,
                     [l EXCEPT !.snapshot = Snapshot(now, jobs, contacts)],
                     [h EXCEPT !.writes = @ + 1])
        ELSE SetSlot(i, "lookup", todo, l, h)

\* `continue`: on with the next payment; `reading` is what the lookup read.
PayContinue(i, reading) ==
    PayProceed(i, Tail(batch[i]), processedJobs, processedContacts,
               [hist[i] EXCEPT !.reading = reading])

StartPayments(i) ==
    /\ FreeSlot(PaySlots, i)
    /\ cycles < MaxCycles
    /\ cycles' = cycles + 1
    /\ SetSlot(i, "fetch", <<>>, [LocIdle EXCEPT !.since = now - Lookback], HistIdle)
    /\ lastFailed' = IF Quiet THEN lastFailed ELSE {}
    /\ UNCHANGED <<processedJobs, processedContacts, stateFile, now, ghl, restarts,
                   webhookOk, lastHandled>>
    /\ UNCHANGED <<sourceVars, intakeVars, variantVars>>

\* cron.schedule('*/20 * * * *', ...) (lines 735-738)
CronPaymentStatus == \E i \in PaySlots : StartPayments(i)

\* app.get('/test-payment-check', ...) (lines 717-721)
TestPaymentCheck == \E i \in PaySlots : StartPayments(i)

\* Step 1: the answer to GET /jobpayment.json
PaymentsFetched(i) ==
    /\ i \in PaySlots
    /\ pc[i] = "fetch"
    /\ \/ /\ EndCycle(i)
       \/ /\ \E payments \in DistinctLists(PaymentIds, MaxBatch) :
                PayProceed(i, payments, processedJobs, processedContacts, hist[i])
          /\ UNCHANGED <<lastHandled, lastFailed>>
    /\ UNCHANGED <<processedJobs, processedContacts, stateFile, now, ghl, cycles,
                   restarts, webhookOk>>
    /\ UNCHANGED <<sourceVars, intakeVars, variantVars>>

\* A status test that lets every job through.
AnyStatus(status) == TRUE

\* Step 4: job.status.toLowerCase() !== 'completed'
IsCompleted(status) == ToLowerCase(status) = StrCompletedLower

\* Step 5: the latest end_date of the activities, else the job's edit_date.
RECURSIVE MaxEndDate(_, _)
MaxEndDate(activities, maxEndDate) ==
    IF activities = <<>> THEN maxEndDate
    ELSE LET endDate == Head(activities)
         IN  MaxEndDate(Tail(activities),
                        IF endDate # NoDate /\ (maxEndDate = NoDate \/ endDate > maxEndDate)
                        THEN endDate ELSE maxEndDate)

\* A completion date that looks at no activity.
EditDateOnly(activitiesOk, activities, jobEditDate) == jobEditDate

CompletionDate(activitiesOk, activities, jobEditDate) ==
    IF activitiesOk /\ MaxEndDate(activities, NoDate) # NoDate
    THEN MaxEndDate(activities, NoDate)
    ELSE jobEditDate

\* Step 6: completionDate.isSameOrAfter(targetMoment)
OnOrAfterCutoff(completionDate) == completionDate >= Cutoff

\* What steps 5 to 7 make of a job and of the answer to the activity fetch
\* (activitiesOk: the request did not fail), over all jobs and answers, the
\* jobs having one of the given descriptions.
JobReadingsOf(descriptions) ==
    {[completed |-> OnOrAfterCutoff(CompletionDate(activitiesOk, activities, editDate)),
      ghlContactId |-> ExtractGhlContactId(description),
      hasCompany |-> Truthy(companyUuid),
      dates |-> NoDates] :
        activitiesOk \in BOOLEAN, activities \in ActivityLists, editDate \in JobDates,
        description \in descriptions, companyUuid \in CompanyUuids}

JobReadings == JobReadingsOf(JobDescriptions)

\* The same for jobs of a company and without description, the answer to the
\* activity fetch and the job's edit_date being kept with what was made of
\* them.
DatedReadings ==
    {[completed |-> OnOrAfterCutoff(CompletionDate(activitiesOk, activities, editDate)),
      ghlContactId |-> ExtractGhlContactId(Undefined),
      hasCompany |-> Truthy(companyUuid),
      dates |-> [activitiesOk |-> activitiesOk, activities |-> activities,
                 editDate |-> editDate]] :
        activitiesOk \in BOOLEAN, activities \in ActivityLists, editDate \in JobDates,
        companyUuid \in CompanyUuids \ {Undefined}}

\* Step 8: the e-mail of the first company contact that has one.
RECURSIVE FirstEmail(_)
FirstEmail(companyContacts) ==
    IF companyContacts = <<>> THEN Empty
    ELSE IF Truthy(Head(companyContacts)) THEN Head(companyContacts)
         ELSE FirstEmail(Tail(companyContacts))

ClientEmail(contactsOk, companyContacts) ==
    IF contactsOk THEN ToLowerCase(Trim(FirstEmail(companyContacts))) ELSE Empty

\* Step 9: ghlContactId || clientEmail
ContactKey(ghlContactId, clientEmail) ==
    IF Truthy(ghlContactId) THEN ghlContactId ELSE clientEmail

\* Step 10: paid and recent
PaidAndRecent(active, amount, editDate, since) ==
    active = 1 /\ amount > 0 /\ editDate > since

\* What step 8 makes of the answer to the company contact fetch (contactsOk:
\* the request did not fail), over all answers.
ClientEmails ==
    {ClientEmail(contactsOk, companyContacts) :
        contactsOk \in BOOLEAN, companyContacts \in CompanyContactLists}

\* payment.edit_date of a listed payment: at the start of the window the
\* filter asked for (edit_date gt) or inside it.
EditDates(since) == {since, since + 1}

(***************************************************************************)
(* Steps 3 to 10 for the payment at the head of the list.  The three       *)
(* ServiceM8 reads of one payment (job, job activities, company contacts)  *)
(* are awaited one after the other and nothing of the program's state is   *)
(* read or written between them: they are one step, taken when the last    *)
(* answer the payment needs is in.                                         *)
(***************************************************************************)
PaymentLookedUpOf(i, readings) ==
    /\ pc[i] = "lookup"
    /\ \/ /\ PayContinue(i, NoReading)       \* GET /job.json failed (line 266)
          /\ UNCHANGED <<lastHandled, lastFailed>>
       \/ /\ PayContinue(i, NoReading)       \* no job of that uuid (line 270)
          /\ UNCHANGED <<lastHandled, lastFailed>>
       \/ \E status \in JobStatuses :
            IF status = Undefined
            THEN EndCycle(i)         \* job.status.toLowerCase() throws (line 274)
            ELSE /\ UNCHANGED <<lastHandled, lastFailed>>
                 /\ IF ~IsCompleted(status)
                    THEN PayContinue(i, [NoReading EXCEPT !.status = status])
                    ELSE \E job \in readings, clientEmail \in ClientEmails,
                            paid \in {PaidAndRecent(active, amount, editDate, loc[i].since) :
                                        active \in ActiveValues, amount \in AmountValues,
                                        editDate \in EditDates(loc[i].since)} :
                            LET paymentUuid == Head(batch[i])
                                contactKey == ContactKey(job.ghlContactId, clientEmail)
                                seen == Truthy(contactKey) /\ contactKey \in processedContacts
                                reading == [status |-> status,
                                            datedAndPaid |-> job.completed /\ paid,
                                            open |-> job.hasCompany /\ ~seen,
                                            dates |-> job.dates]
                            IN  IF ~job.completed \/ ~job.hasCompany
                                THEN PayContinue(i, reading)
                                ELSE IF seen
                                THEN PayContinue(i, reading)
                                ELSE IF paid
                                THEN SetSlot(i, "post", batch[i],
                                             [loc[i] EXCEPT !.contactKey = contactKey],
                                             [hist[i] EXCEPT !.posted = @ \cup {paymentUuid},
                                                             !.reading = reading])
                                ELSE PayContinue(i, reading)
    /\ UNCHANGED <<processedJobs, processedContacts, stateFile, now, ghl, cycles,
                   restarts, webhookOk>>
    /\ UNCHANGED <<sourceVars, intakeVars, variantVars>>

PaymentLookedUp(i) == PaymentLookedUpOf(i, JobReadings)

\* A record of the answer that takes every payment for delivered.
JobsWithEveryPayment(jobs, paymentUuid) == jobs \cup PaymentIds

\* The sets after a webhook POST was answered 2xx (lines 377-378).
JobsAfterWebhook(jobs, paymentUuid) == jobs \cup {paymentUuid}

ContactsAfterWebhook(contacts, contactKey) ==
    IF Truthy(contactKey) THEN contacts \cup {contactKey} ELSE contacts

\* The answer to the webhook POST (lines 367-384)
WebhookAnswered(i) ==
    /\ pc[i] = "post"
    /\ LET paymentUuid == Head(batch[i])
           contactKey == loc[i].contactKey
       IN  \/ LET jobs == JobsAfterWebhook(processedJobs, paymentUuid)
                  contacts == ContactsAfterWebhook(processedContacts, contactKey)
              IN  /\ processedJobs' = jobs
                  /\ processedContacts' = contacts
                  /\ webhookOk' = [webhookOk EXCEPT ![paymentUuid] = IF @ < 2 THEN @ + 1 ELSE @]
                  /\ PayProceed(i, Tail(batch[i]), jobs, contacts,
                                [hist[i] EXCEPT
                                    !.reading = NoReading,
                                    !.addedJobs = @ \cup (jobs \ processedJobs),
                                    !.addedContacts = @ \cup (contacts \ processedContacts)])
           \/ /\ UNCHANGED <<processedJobs, processedContacts, webhookOk>>
              /\ PayProceed(i, Tail(batch[i]), processedJobs, processedContacts,
                            [hist[i] EXCEPT !.targetFailed = TRUE,
                                             !.failed = @ \cup {paymentUuid},
                                             !.reading = NoReading])
    /\ UNCHANGED <<stateFile, now, ghl, cycles, restarts, lastHandled, lastFailed>>
    /\ UNCHANGED <<sourceVars, intakeVars, variantVars>>

(***************************************************************************)
(* The environment: the clock, and the process being restarted.            *)
(***************************************************************************)
Tick ==
    /\ now < MaxTime
    /\ now' = now + 1
    /\ UNCHANGED <<processedJobs, processedContacts, stateFile, pc, batch, loc, ghl,
                   cycles, restarts, webhookOk, hist, lastHandled, lastFailed>>
    /\ UNCHANGED <<sourceVars, intakeVars, variantVars>>

\* The process ends and starts again: lines 52-56 run anew, every cycle in
\* progress is gone, state.json is as the last write left it.
Restart ==
    /\ restarts < MaxRestarts
    /\ restarts' = restarts + 1
    /\ processedJobs' = {}
    /\ processedContacts' = {}
    /\ pc' = [i \in Slots |-> "idle"]
    /\ batch' = [i \in Slots |-> <<>>]
    /\ loc' = [i \in Slots |-> LocIdle]
    /\ hist' = [i \in Slots |-> HistIdle]
    /\ lastHandled' = {}
    /\ lastFailed' = {}
    /\ processedGhlContactIds' = [id \in GhlIds |-> 0]
    /\ quotesNewQueueUuid' = Undefined
    /\ req' = [r \in Requests |->
                 IF req[r].pc \in {"free", "done", "lost"} THEN req[r]
                 ELSE [req[r] EXCEPT !.pc = "lost"]]
    /\ UNCHANGED <<stateFile, now, ghl, cycles, webhookOk, clock, companies,
                   createdJobs>>
    /\ UNCHANGED <<sourceVars, variantVars>>

(***************************************************************************)
(* loadState (lines 59-71): the body after readFile has settled.  A file   *)
(* that is absent or cut short throws (ENOENT, JSON.parse) before either   *)
(* set is assigned.                                                        *)
(***************************************************************************)
LoadedJobs == IF stateFile.kind = "json" THEN stateFile.state.processedJobs ELSE processedJobs

LoadedContacts ==
    IF stateFile.kind = "json" THEN stateFile.state.processedContacts ELSE processedContacts

(***************************************************************************)
(* checkNewContacts (lines 118-229).                                       *)
(***************************************************************************)
\* The two parts around a space, untrimmed.
UntrimmedName(first, last) == OrEmpty(first) \o <<" ">> \o OrEmpty(last)

\* `${first || ''} ${last || ''}`.trim() (line 141)
ContactName(first, last) == Trim(OrEmpty(first) \o <<" ">> \o OrEmpty(last))

\* !email && !contactName (line 148)
Ineligible(contact) ==
    ~Truthy(contact.email) /\ ~Truthy(ContactName(contact.first, contact.last))

\* The for loop from the contact at the head of `rest` on, up to the first
\* contact it has to await for: processed contacts are passed over (line 135),
\* ineligible ones are recorded (line 150).
RECURSIVE ScanContacts(_, _)
ScanContacts(rest, contacts) ==
    IF rest = <<>> THEN [todo |-> <<>>, contacts |-> contacts]
    ELSE IF Head(rest) \in contacts THEN ScanContacts(Tail(rest), contacts)
    ELSE IF Ineligible(SourceContact(Head(rest)))
         THEN ScanContacts(Tail(rest), contacts \cup {Head(rest)})
         ELSE [todo |-> rest, contacts |-> contacts]

\* The loop goes on with the contacts `rest`, the set being `contacts`: it
\* stops at the await of the GHL search (line 157), of the company fetch
\* (line 180) when the contact has no e-mail, or of saveState (line 224).
ConProceed(i, rest, contacts, h) ==
    LET scan == ScanContacts(rest, contacts)
        l == [loc[i] EXCEPT !.address = Empty]
        h2 == [h EXCEPT !.addedContacts = @ \cup (scan.contacts \ processedContacts),
                        !.search = "none"]
    IN  /\ processedContacts' = scan.contacts
        /\ IF scan.todo = <<>>
           THEN SetSlot(i, "saving", <<>>,
                        [l EXCEPT !.snapshot =
                            Snapshot(l.currentTimestamp, processedJobs, scan.contacts)],
                        [h2 EXCEPT !.writes = @ + 1])
           ELSE SetSlot(i, IF Truthy(SourceContact(Head(scan.todo)).email)
                           THEN "search" ELSE "company",
                        scan.todo, l, h2)

StartContacts(i) ==
    /\ FreeSlot(ConSlots, i)
    /\ cycles < MaxCycles
    /\ cycles' = cycles + 1
    /\ SetSlot(i, "load", <<>>, LocIdle, HistIdle)
    /\ lastHandled' = IF \A j \in ConSlots : pc[j] = "idle" THEN lastHandled ELSE {}
    /\ lastFailed' = IF Quiet THEN lastFailed ELSE {}
    /\ UNCHANGED <<processedJobs, processedContacts, stateFile, now, ghl, restarts,
                   webhookOk>>
    /\ UNCHANGED <<sourceVars, intakeVars, variantVars>>

\* cron.schedule('*/20 * * * *', ...) (lines 730-733)
CronNewContacts == \E i \in ConSlots : StartContacts(i)

\* app.get('/test-contact-check', ...) (lines 723-727)
TestContactCheck == \E i \in ConSlots : StartContacts(i)

\* Lines 121-129: loadState has settled; the contact list is asked for.
StateLoaded(i) ==
    /\ pc[i] = "load"
    /\ processedJobs' = LoadedJobs
    /\ processedContacts' = LoadedContacts
    /\ SetSlot(i, "fetch", <<>>, [loc[i] EXCEPT !.currentTimestamp = now],
               [hist[i] EXCEPT !.reads = @ + 1,
                               !.loadDropped = ~(processedJobs \subseteq LoadedJobs
                                                 /\ processedContacts \subseteq LoadedContacts)])
    /\ UNCHANGED <<stateFile, now, ghl, cycles, restarts, webhookOk, lastHandled, lastFailed>>
    /\ UNCHANGED <<sourceVars, intakeVars, variantVars>>

\* The answer to GET /companycontact.json (lines 129-131)
ContactsFetched(i) ==
    /\ i \in ConSlots
    /\ pc[i] = "fetch"
    /\ \/ /\ EndCycle(i)
          /\ UNCHANGED processedContacts
       \/ /\ \E contacts \in DistinctLists(ContactIds, MaxBatch) :
                ConProceed(i, contacts, processedContacts, hist[i])
          /\ UNCHANGED <<lastHandled, lastFailed>>
    /\ UNCHANGED <<processedJobs, stateFile, now, ghl, cycles, restarts, webhookOk>>
    /\ UNCHANGED <<sourceVars, intakeVars, variantVars>>

\* (c.email || '').toLowerCase().trim() === (email || '').toLowerCase().trim()
SameEmail(a, b) == Trim(ToLowerCase(OrEmpty(a))) = Trim(ToLowerCase(OrEmpty(b)))

\* searchResponse.data.contacts.find(...) (lines 161-163)
ExistingContact(contacts, email) ==
    \E c \in contacts : SameEmail(c.email, email)

\* The answer to the GHL search (lines 157-176)
SearchAnswered(i) ==
    /\ pc[i] = "search"
    /\ LET contactUuid == Head(batch[i])
           email == SourceContact(contactUuid).email
       IN  \/ IF ExistingContact(ghl, email)
              THEN ConProceed(i, Tail(batch[i]), processedContacts \cup {contactUuid}, hist[i])
              ELSE /\ SetSlot(i, "company", batch[i], loc[i],
                              [hist[i] EXCEPT !.search = "nomatch"])
                   /\ UNCHANGED processedContacts
           \/ /\ SetSlot(i, "company", batch[i], loc[i],
                         [hist[i] EXCEPT !.search = "failed"])
              /\ UNCHANGED processedContacts
    /\ UNCHANGED <<processedJobs, stateFile, now, ghl, cycles, restarts, webhookOk,
                   lastHandled, lastFailed>>
    /\ UNCHANGED <<sourceVars, intakeVars, variantVars>>

\* addressDetails.address1 after lines 178-197: the billing address of the
\* company, '' when it has none, undefined when the fetch failed.
Addresses == {<<"s">>, Empty, Undefined}

\* What GHL keeps of a created contact.
GhlContact(payload) == [name |-> payload.name, email |-> payload.email]

\* The answer to GET /company.json; the create POST is issued (lines 180-211)
CompanyAnswered(i) ==
    /\ pc[i] = "company"
    /\ \E address \in Addresses :
          SetSlot(i, "create", batch[i], [loc[i] EXCEPT !.address = address], hist[i])
    /\ UNCHANGED <<processedJobs, processedContacts, stateFile, now, ghl, cycles,
                   restarts, webhookOk, lastHandled, lastFailed>>
    /\ UNCHANGED <<sourceVars, intakeVars, variantVars>>

\* A body that always carries a street.
PayloadWithStreet(contact, address) ==
    [name |-> ContactName(contact.first, contact.last),
     email |-> OrEmpty(contact.email),
     address1 |-> <<"s">>]

\* The body of the create POST (lines 200-211)
CreatePayload(contact, address) ==
    [name |-> ContactName(contact.first, contact.last),
     email |-> OrEmpty(contact.email),
     address1 |-> address]

\* The answer to the create POST (lines 199-221)
CreateAnswered(i) ==
    /\ pc[i] = "create"
    /\ LET contactUuid == Head(batch[i])
       IN  \/ /\ ghl' = ghl \cup {GhlContact(CreatePayload(SourceContact(contactUuid),
                                                         loc[i].address))}
              /\ ConProceed(i, Tail(batch[i]), processedContacts \cup {contactUuid}, hist[i])
           \/ /\ UNCHANGED ghl
              /\ ConProceed(i, Tail(batch[i]), processedContacts,
                            [hist[i] EXCEPT !.targetFailed = TRUE,
                                            !.failed = @ \cup {contactUuid}])
    /\ UNCHANGED <<processedJobs, stateFile, now, cycles, restarts, webhookOk, lastHandled, lastFailed>>
    /\ UNCHANGED <<sourceVars, intakeVars, variantVars>>

(***************************************************************************)
(* POST /ghl-create-job (lines 414-714).  The handler awaits ServiceM8,    *)
(* GHL and the file system in turn; each action is the answer to the call  *)
(* it is suspended at, up to the issue of the next call or the response.   *)
(***************************************************************************)
SetReq(r, rec) == req' = [req EXCEPT ![r] = rec]

\* res.status(...).json(...): the request is answered, the handler returns.
Respond(r, rec, response) == SetReq(r, [rec EXCEPT !.pc = "done", !.response = response])

\* The catch of the handler (lines 710-713), after `step` threw.
Caught(r, step) == Respond(r, [req[r] EXCEPT !.failed = step], ResponseFailed)

\* A validation that forgets the e-mail.
MissingButEmail(body) ==
    \/ ~Truthy(body.firstName)
    \/ ~Truthy(body.lastName)
    \/ ~Truthy(body.ghlContactId)

\* !firstName || !lastName || !email || !ghlContactId (line 419)
MissingFields(body) ==
    \/ ~Truthy(body.firstName)
    \/ ~Truthy(body.lastName)
    \/ ~Truthy(body.email)
    \/ ~Truthy(body.ghlContactId)

\* A debounce test that lets every request through.
NeverDebounced(lastProcessed, time) == FALSE

\* lastProcessed && now - lastProcessed < 5000 (line 427); an id without
\* entry reads undefined, which is as falsy as 0.
Debounced(lastProcessed, time) ==
    lastProcessed # 0 /\ time - lastProcessed < DebounceWindow

\* A test of the queue uuid that lets every value through.
AnyQueue(queueUuid) == FALSE

\* !queueUuid (line 435)
NoQueue(queueUuid) == ~Truthy(queueUuid)

\* A handler that answers at once and hands every payment to processedJobs.
ReceiveAndRecord(r, body) ==
    /\ req[r].pc = "free"
    /\ Respond(r, [ReqFree EXCEPT !.body = body, !.receivedAt = clock], ResponseMissing)
    /\ processedJobs' = PaymentIds
    /\ UNCHANGED <<processedContacts, stateFile, now, pc, batch, loc, ghl, cycles,
                   restarts, webhookOk, hist, lastHandled, lastFailed>>
    /\ UNCHANGED <<processedGhlContactIds, quotesNewQueueUuid, clock, companies,
                   createdJobs>>
    /\ UNCHANGED <<sourceVars, variantVars>>

\* Lines 417-434: validation, debounce, and the queue uuid, which is asked
\* of ServiceM8 unless an earlier request cached it (lines 92-95).
Receive(r, body) ==
    /\ req[r].pc = "free"
    /\ \A q \in Requests : q < r => req[q].pc # "free"
    /\ LET rec == [ReqFree EXCEPT !.body = body, !.receivedAt = clock]
       IN  IF MissingFields(body)
           THEN /\ Respond(r, rec, ResponseMissing)
                /\ UNCHANGED processedGhlContactIds
           ELSE IF Debounced(processedGhlContactIds[body.ghlContactId], clock)
           THEN /\ Respond(r, rec, ResponseSkipped)
                /\ UNCHANGED processedGhlContactIds
           ELSE /\ processedGhlContactIds' =
                        [processedGhlContactIds EXCEPT ![body.ghlContactId] = clock]
                /\ IF Truthy(quotesNewQueueUuid)
                   THEN SetReq(r, [rec EXCEPT !.pc = "companies",
                                              !.queueUuid = quotesNewQueueUuid,
                                              !.calledSource = TRUE])
                   ELSE SetReq(r, [rec EXCEPT !.pc = "queue", !.calledSource = TRUE])
    /\ UNCHANGED <<quotesNewQueueUuid, clock, companies, createdJobs>>
    /\ UNCHANGED <<pollVars, sourceVars, variantVars>>

\* (q.name || '').toLowerCase().trim() === 'quotes - new' (line 102)
IsQuotesNew(name) == Trim(ToLowerCase(OrEmpty(name))) = StrQuotesNewLower

\* queues.find(...): the uuid of the queue found, or null (lines 102-110).
FindQuotesNew(queues) ==
    IF \E k \in DOMAIN queues : IsQuotesNew(queues[k]) THEN QueueUuid ELSE Undefined

\* The answer to GET /queue.json (lines 97-114, 434-440): the uuid is cached
\* when found; without it the request is answered 500, else the companies
\* are asked for.
QueueAnswered(r) ==
    /\ req[r].pc = "queue"
    /\ \E queueUuid \in {FindQuotesNew(queues) : queues \in QueueLists} \cup {Undefined} :
          LET rec == [req[r] EXCEPT !.failed = IF Truthy(queueUuid) THEN @ ELSE "queue"]
          IN  /\ quotesNewQueueUuid' =
                    IF Truthy(queueUuid) THEN queueUuid ELSE quotesNewQueueUuid
              /\ IF NoQueue(queueUuid)
                 THEN Respond(r, rec, ResponseNoQueue)
                 ELSE SetReq(r, [rec EXCEPT !.pc = "companies", !.queueUuid = queueUuid])
    /\ UNCHANGED <<processedGhlContactIds, clock, companies, createdJobs>>
    /\ UNCHANGED <<pollVars, sourceVars, variantVars>>

\* `${firstName} ${lastName}`.toLowerCase().trim() (line 444)
FullName(body) == Trim(ToLowerCase(body.firstName \o <<" ">> \o body.lastName))

\* The test of companies.find (lines 445-455)
CompanyMatches(company, body) ==
    \/ Trim(ToLowerCase(OrEmpty(company.email))) = Trim(ToLowerCase(OrEmpty(body.email)))
    \/ Trim(ToLowerCase(OrEmpty(company.name))) = FullName(body)

\* Record uuids as ServiceM8 hands them out (x-record-uuid): one per request.
RecordUuid(prefix, r) == <<prefix>> \o [k \in 1..r |-> "u"]

\* The answer to GET /company.json (lines 440-463): a matching company is
\* taken, else POST /company.json is issued.
CompaniesAnswered(r) ==
    /\ req[r].pc = "companies"
    /\ \/ Caught(r, "companies")
       \/ LET matching == {c \in companies : CompanyMatches(c, req[r].body)}
          IN  IF matching # {}
              THEN \E c \in matching :
                      SetReq(r, [req[r] EXCEPT !.pc = "message", !.companyUuid = c.uuid])
              ELSE SetReq(r, [req[r] EXCEPT !.pc = "companyCreate"])
    /\ UNCHANGED <<processedGhlContactIds, quotesNewQueueUuid, clock, companies,
                   createdJobs>>
    /\ UNCHANGED <<pollVars, sourceVars, variantVars>>

\* The answer to POST /company.json (lines 463-466); POST /companycontact.json
\* is issued.
CompanyCreated(r) ==
    /\ req[r].pc = "companyCreate"
    /\ \/ /\ Caught(r, "companyCreate")
          /\ UNCHANGED companies
       \/ LET uuid == RecordUuid("c", r)
          IN  /\ companies' = companies \cup
                    {[uuid |-> uuid, name |-> FullName(req[r].body), email |-> Undefined]}
              /\ SetReq(r, [req[r] EXCEPT !.pc = "companyContact", !.companyUuid = uuid])
    /\ UNCHANGED <<processedGhlContactIds, quotesNewQueueUuid, clock, createdJobs>>
    /\ UNCHANGED <<pollVars, sourceVars, variantVars>>

\* The answer to POST /companycontact.json (lines 467-476); the GHL contact
\* is asked for.
CompanyContactCreated(r) ==
    /\ req[r].pc = "companyContact"
    /\ \/ Caught(r, "companyContact")
       \/ SetReq(r, [req[r] EXCEPT !.pc = "message"])
    /\ UNCHANGED <<processedGhlContactIds, quotesNewQueueUuid, clock, companies,
                   createdJobs>>
    /\ UNCHANGED <<pollVars, sourceVars, variantVars>>

\* jobDescriptionWithMessage (lines 517-519)
BuildJobDescription(message, ghlContactId, jobDescription) ==
    IF Truthy(message)
    THEN StrMessage \o message \o <<"\n">> \o Marker \o ghlContactId \o <<"\n">>
            \o OrEmpty(jobDescription)
    ELSE Marker \o ghlContactId \o <<"\n">> \o OrEmpty(jobDescription)

\* The answer to GET /contacts/{id} of GHL (lines 481-528): `message` is the
\* value of the contact's Message field; a failure is caught and leaves ''.
\* POST /job.json is issued.
MessageAnswered(r, message) ==
    /\ req[r].pc = "message"
    /\ \E m \in {[text |-> message, failed |-> FALSE], [text |-> Empty, failed |-> TRUE]} :
          SetReq(r, [req[r] EXCEPT
                        !.pc = "job",
                        !.message = m.text,
                        !.optionalFailed = @ \/ m.failed,
                        !.description = BuildJobDescription(m.text, req[r].body.ghlContactId,
                                                            req[r].body.jobDescription)])
    /\ UNCHANGED <<processedGhlContactIds, quotesNewQueueUuid, clock, companies,
                   createdJobs>>
    /\ UNCHANGED <<pollVars, sourceVars, variantVars>>

\* The answer to POST /job.json (lines 528-540); POST /jobcontact.json is
\* issued.
JobAnswered(r) ==
    /\ req[r].pc = "job"
    /\ \/ /\ Caught(r, "job")
          /\ UNCHANGED createdJobs
       \/ LET uuid == RecordUuid("j", r)
          IN  /\ createdJobs' = createdJobs \cup
                    {[uuid |-> uuid, company_uuid |-> req[r].companyUuid,
                      job_description |-> req[r].description]}
              /\ SetReq(r, [req[r] EXCEPT !.pc = "jobContact", !.jobUuid = uuid])
    /\ UNCHANGED <<processedGhlContactIds, quotesNewQueueUuid, clock, companies>>
    /\ UNCHANGED <<pollVars, sourceVars, variantVars>>

\* The answer to POST /jobcontact.json (lines 533-546); the GHL contact is
\* asked for its photos.
JobContactAnswered(r) ==
    /\ req[r].pc = "jobContact"
    /\ \/ Caught(r, "jobContact")
       \/ SetReq(r, [req[r] EXCEPT !.pc = "listing"])
    /\ UNCHANGED <<processedGhlContactIds, quotesNewQueueUuid, clock, companies,
                   createdJobs>>
    /\ UNCHANGED <<pollVars, sourceVars, variantVars>>

\* for (const photo of photoData), `remaining` photos to go: the download of
\* the next one is issued (line 620) or, the list over, the request is
\* answered (line 709).
PhotoLoop(r, rec, remaining) ==
    IF remaining = 0
    THEN Respond(r, [rec EXCEPT !.photos = 0, !.uploadTries = 0],
                 ResponseCreated(rec.jobUuid))
    ELSE SetReq(r, [rec EXCEPT !.pc = "download", !.photos = remaining,
                               !.uploadTries = 0])

\* `continue`, or the end of the loop body.
NextPhoto(r) == PhotoLoop(r, [req[r] EXCEPT !.relayed = @ + 1], req[r].photos - 1)

\* The photo is given up: `continue` after a failure, or the catch of lines
\* 703-705.
PhotoFailed(r) ==
    PhotoLoop(r, [req[r] EXCEPT !.optionalFailed = TRUE, !.failedPhotos = @ + 1],
              req[r].photos - 1)

\* The answer to GET /contacts/{id} of GHL (lines 545-577, 601-607): the
\* photos of the custom fields, at most `most` of them; with none, the
\* attachments are asked for.
PhotosListedOf(r, most) ==
    /\ req[r].pc = "listing"
    /\ \/ PhotoLoop(r, [req[r] EXCEPT !.optionalFailed = TRUE], 0)
       \/ \E n \in 0..most :
             IF n = 0
             THEN SetReq(r, [req[r] EXCEPT !.pc = "attachments"])
             ELSE PhotoLoop(r, req[r], n)
    /\ UNCHANGED <<processedGhlContactIds, quotesNewQueueUuid, clock, companies,
                   createdJobs>>
    /\ UNCHANGED <<pollVars, sourceVars, variantVars>>

\* The answer to GET /contacts/{id}/attachments (lines 575-599)
AttachmentsListedOf(r, most) ==
    /\ req[r].pc = "attachments"
    /\ \/ PhotoLoop(r, [req[r] EXCEPT !.optionalFailed = TRUE], 0)
       \/ \E n \in 0..most : PhotoLoop(r, req[r], n)
    /\ UNCHANGED <<processedGhlContactIds, quotesNewQueueUuid, clock, companies,
                   createdJobs>>
    /\ UNCHANGED <<pollVars, sourceVars, variantVars>>

\* The two listings of a contact that has at most MaxPhotos photos.
PhotosListed(r) == PhotosListedOf(r, MaxPhotos)

AttachmentsListed(r) == AttachmentsListedOf(r, MaxPhotos)

\* The answer to the download by document id (lines 619-646): the headers of
\* an image (the body is piped to the temporary file), those of something
\* else, or a failure, after which the photo's url is tried.
Downloaded(r) ==
    /\ req[r].pc = "download"
    /\ \/ SetReq(r, [req[r] EXCEPT !.pc = "writing"])
       \/ PhotoFailed(r)
       \/ SetReq(r, [req[r] EXCEPT !.pc = "fallback"])
    /\ UNCHANGED <<processedGhlContactIds, quotesNewQueueUuid, clock, companies,
                   createdJobs>>
    /\ UNCHANGED <<pollVars, sourceVars, variantVars>>

\* The answer to the download by url (lines 629-646)
FallbackDownloaded(r) ==
    /\ req[r].pc = "fallback"
    /\ \/ SetReq(r, [req[r] EXCEPT !.pc = "writing"])
       \/ PhotoFailed(r)
    /\ UNCHANGED <<processedGhlContactIds, quotesNewQueueUuid, clock, companies,
                   createdJobs>>
    /\ UNCHANGED <<pollVars, sourceVars, variantVars>>

\* downloadResponse.data.pipe(writer) and the promise on the writer (lines
\* 648-654): the writer finishes, the writer fails (the promise rejects), or
\* the download stream fails before its end.  pipe() neither ends nor fails
\* the writer then, and nothing handles the stream's error: the promise is
\* never settled (or the process ends on the unhandled 'error' event).
\* fs.createWriteStream creates the file at tempPath when it opens it: the
\* file exists from then on, unless the writer failed at the opening.
WriterSettled(r) ==
    /\ req[r].pc = "writing"
    /\ \/ SetReq(r, [req[r] EXCEPT !.pc = "stat", !.tempFiles = @ + 1])
       \/ PhotoFailed(r)
       \/ PhotoLoop(r, [req[r] EXCEPT !.optionalFailed = TRUE, !.tempFiles = @ + 1,
                                      !.failedPhotos = @ + 1],
                     req[r].photos - 1)
       \/ SetReq(r, [req[r] EXCEPT !.pc = "hung", !.optionalFailed = TRUE,
                                   !.tempFiles = @ + 1, !.failedPhotos = @ + 1])
    /\ UNCHANGED <<processedGhlContactIds, quotesNewQueueUuid, clock, companies,
                   createdJobs>>
    /\ UNCHANGED <<pollVars, sourceVars, variantVars>>

\* fsPromises.stat and fsPromises.access of the temporary file (lines
\* 656-668): a file with contents that can be read, or not; POST
\* /Attachment.json is issued.
FileChecked(r) ==
    /\ req[r].pc = "stat"
    /\ \/ SetReq(r, [req[r] EXCEPT !.pc = "attach", !.uploadTries = 1])
       \/ PhotoFailed(r)
    /\ UNCHANGED <<processedGhlContactIds, quotesNewQueueUuid, clock, companies,
                   createdJobs>>
    /\ UNCHANGED <<pollVars, sourceVars, variantVars>>

\* attachmentData (lines 672-677): what the attachment record is related to.
AttachmentData(jobUuid) == [related_object |-> "job", related_object_uuid |-> jobUuid]

\* The answer to POST /Attachment.json (lines 678-688); the file is read and
\* PUT /Attachment/{uuid}.file is issued.

AttachmentCreated(r) ==
    /\ req[r].pc = "attach"
    /\ \/ SetReq(r, [req[r] EXCEPT !.pc = "upload",
                                   !.attachments = @ \cup {AttachmentData(req[r].jobUuid)}])
       \/ PhotoFailed(r)
    /\ UNCHANGED <<processedGhlContactIds, quotesNewQueueUuid, clock, companies,
                   createdJobs>>
    /\ UNCHANGED <<pollVars, sourceVars, variantVars>>

\* The answer to PUT /Attachment/{uuid}.file (lines 684-705)
FileUploaded(r) ==
    /\ req[r].pc = "upload"
    /\ \/ NextPhoto(r)
       \/ PhotoFailed(r)
    /\ UNCHANGED <<processedGhlContactIds, quotesNewQueueUuid, clock, companies,
                   createdJobs>>
    /\ UNCHANGED <<pollVars, sourceVars, variantVars>>

\* Date.now() advances.
ClockTick ==
    /\ clock < MaxClock
    /\ clock' = clock + 1
    /\ UNCHANGED <<processedGhlContactIds, quotesNewQueueUuid, req, companies, createdJobs>>
    /\ UNCHANGED <<pollVars, sourceVars, variantVars>>

\* The handler of request r goes on from the call it is suspended at.
HandlerStep(r) ==
    \/ QueueAnswered(r)
    \/ CompaniesAnswered(r)
    \/ CompanyCreated(r)
    \/ CompanyContactCreated(r)
    \/ JobAnswered(r)
    \/ JobContactAnswered(r)
    \/ PhotosListed(r)
    \/ AttachmentsListed(r)
    \/ Downloaded(r)
    \/ FallbackDownloaded(r)
    \/ WriterSettled(r)
    \/ FileChecked(r)
    \/ AttachmentCreated(r)
    \/ FileUploaded(r)

(***************************************************************************)
(* The specifications.  Spec is the program: both routines, every trigger, *)
(* the state store and the restart.  SpecCon and SpecPay are the program   *)
(* with only the triggers of one routine firing; SpecCon also lets the     *)
(* clock advance.  SpecSeq is the program while no trigger fires during a  *)
(* cycle: the cycles of a behaviour form a sequence.                       *)
(***************************************************************************)
Next ==
    \/ CronNewContacts
    \/ TestContactCheck
    \/ CronPaymentStatus
    \/ TestPaymentCheck
    \/ \E i \in ConSlots :
          \/ StateLoaded(i)
          \/ ContactsFetched(i)
          \/ SearchAnswered(i)
          \/ CompanyAnswered(i)
          \/ CreateAnswered(i)
    \/ \E i \in PaySlots :
          \/ PaymentsFetched(i)
          \/ PaymentLookedUp(i)
          \/ WebhookAnswered(i)
    \/ \E i \in Slots :
          \/ WriteOpened(i)
          \/ WriteFinished(i)
    \/ Restart

Spec == Init /\ [][Next]_vars

NextCon ==
    \/ CronNewContacts
    \/ TestContactCheck
    \/ \E i \in ConSlots :
          \/ StateLoaded(i)
          \/ ContactsFetched(i)
          \/ SearchAnswered(i)
          \/ CompanyAnswered(i)
          \/ CreateAnswered(i)
          \/ WriteOpened(i)
          \/ WriteFinished(i)
    \/ Restart
    \/ Tick

SpecCon == Init /\ [][NextCon]_vars

\* GHL contacts play no part in checkPaymentStatus: GHL starts empty.
InitPay == Init /\ ghl = {}

NextPay ==
    \/ CronPaymentStatus
    \/ TestPaymentCheck
    \/ \E i \in PaySlots :
          \/ PaymentsFetched(i)
          \/ PaymentLookedUp(i)
          \/ WebhookAnswered(i)
          \/ WriteOpened(i)
          \/ WriteFinished(i)
    \/ Restart

SpecPay == InitPay /\ [][NextPay]_vars

NextSeq ==
    \/ Quiet /\ CronNewContacts
    \/ Quiet /\ TestContactCheck
    \/ Quiet /\ CronPaymentStatus
    \/ Quiet /\ TestPaymentCheck
    \/ \E i \in ConSlots :
          \/ StateLoaded(i)
          \/ ContactsFetched(i)
          \/ SearchAnswered(i)
          \/ CompanyAnswered(i)
          \/ CreateAnswered(i)
    \/ \E i \in PaySlots :
          \/ PaymentsFetched(i)
          \/ PaymentLookedUp(i)
          \/ WebhookAnswered(i)
    \/ \E i \in Slots :
          \/ WriteOpened(i)
          \/ WriteFinished(i)
    \/ Restart

SpecSeq == Init /\ [][NextSeq]_vars

\* The two cron jobs fire in the same minute (lines 730 and 735): a cycle of
\* each routine is in progress side by side while the clock advances, no
\* routine being started again before its cycle is over.
NextTime ==
    \/ (\A j \in ConSlots : pc[j] = "idle") /\ CronNewContacts
    \/ (\A j \in PaySlots : pc[j] = "idle") /\ CronPaymentStatus
    \/ \E i \in ConSlots :
          \/ StateLoaded(i)
          \/ ContactsFetched(i)
          \/ SearchAnswered(i)
          \/ CompanyAnswered(i)
          \/ CreateAnswered(i)
    \/ \E i \in PaySlots :
          \/ PaymentsFetched(i)
          \/ PaymentLookedUp(i)
          \/ WebhookAnswered(i)
    \/ \E i \in Slots :
          \/ WriteOpened(i)
          \/ WriteFinished(i)
    \/ Tick

SpecTime == InitPay /\ [][NextTime]_vars

(***************************************************************************)
(* The list fetches against a ServiceM8 whose edits are followed.  In the  *)
(* specifications above a list fetch may return any list; here it returns  *)
(* what the filter edit_date gt 'twentyMinutesAgo' selects.                *)
(***************************************************************************)
\* A contact or a payment is created or edited in ServiceM8.
SourceEdited(e) ==
    /\ edited[e] # {now}
    /\ edited' = [edited EXCEPT ![e] = {now}]
    /\ UNCHANGED <<pollVars, returned, contactRecords, intakeVars, variantVars>>

\* $filter=edit_date gt '${twentyMinutesAgo}' (lines 126-127, 241-242)
EditedAfter(entities, since) == {e \in entities : \E t \in edited[e] : t > since}

\* The lists ServiceM8 may answer with: the selected entities, in any order.
Listings(entities, selected) ==
    {list \in DistinctLists(entities, MaxBatch) :
        {list[k] : k \in 1..Len(list)} = selected}

\* Step 1: the answer to GET /jobpayment.json (lines 241-245)
PaymentsListed(i) ==
    /\ i \in PaySlots
    /\ pc[i] = "fetch"
    /\ LET selected == EditedAfter(PaymentIds, loc[i].since)
       IN  \/ /\ EndCycle(i)
              /\ UNCHANGED returned
           \/ /\ \E payments \in Listings(PaymentIds, selected) :
                    PayProceed(i, payments, processedJobs, processedContacts, hist[i])
              /\ returned' = returned \cup selected
              /\ UNCHANGED <<lastHandled, lastFailed>>
    /\ UNCHANGED <<processedJobs, processedContacts, stateFile, now, ghl, cycles,
                   restarts, webhookOk, edited, contactRecords>>
    /\ UNCHANGED <<intakeVars, variantVars>>

\* The answer to GET /companycontact.json (lines 125-131)
ContactsListed(i) ==
    /\ i \in ConSlots
    /\ pc[i] = "fetch"
    /\ LET selected == EditedAfter(ContactIds, loc[i].currentTimestamp - Lookback)
       IN  \/ /\ EndCycle(i)
              /\ UNCHANGED <<processedContacts, returned>>
           \/ /\ \E contacts \in Listings(ContactIds, selected) :
                    ConProceed(i, contacts, processedContacts, hist[i])
              /\ returned' = returned \cup selected
              /\ UNCHANGED <<lastHandled, lastFailed>>
    /\ UNCHANGED <<processedJobs, stateFile, now, ghl, cycles, restarts, webhookOk, edited,
                   contactRecords>>
    /\ UNCHANGED <<intakeVars, variantVars>>

\* The program, cycle after cycle, against that ServiceM8, the clock advancing.
NextSource ==
    \/ \E e \in PaymentIds \cup ContactIds : SourceEdited(e)
    \/ Quiet /\ CronNewContacts
    \/ Quiet /\ CronPaymentStatus
    \/ \E i \in ConSlots :
          \/ StateLoaded(i)
          \/ ContactsListed(i)
          \/ SearchAnswered(i)
          \/ CompanyAnswered(i)
          \/ CreateAnswered(i)
    \/ \E i \in PaySlots :
          \/ PaymentsListed(i)
          \/ PaymentLookedUp(i)
          \/ WebhookAnswered(i)
    \/ \E i \in Slots :
          \/ WriteOpened(i)
          \/ WriteFinished(i)
    \/ Tick

SpecSource == InitPay /\ [][NextSource]_vars

\* The program when only /ghl-create-job is called: the poll routines are
\* not started, state.json is absent and stays so.
InitJob == InitPay /\ stateFile = FileAbsent

\* SpecJob: requests of GHL contacts that have no Message field.
NextJob ==
    \/ \E r \in Requests, body \in Bodies : Receive(r, body)
    \/ \E r \in Requests : HandlerStep(r)
    \/ \E r \in Requests : MessageAnswered(r, Empty)
    \/ ClockTick

SpecJob == InitJob /\ [][NextJob]_vars

\* SpecDescription: one request, over the ids, free texts and messages.
NextDescription ==
    \/ \E body \in DescriptionBodies : Receive(1, body)
    \/ HandlerStep(1)
    \/ \E message \in Messages : MessageAnswered(1, message)

SpecDescription == InitJob /\ [][NextDescription]_vars

\* SpecDebounce: the requests of one GHL contact, complete or lacking the
\* e-mail; the contact has no Message field.
OneContactBodies == {BodyA, BodyNoEmail}

NextDebounce ==
    \/ \E r \in Requests, body \in OneContactBodies : Receive(r, body)
    \/ \E r \in Requests : HandlerStep(r)
    \/ \E r \in Requests : MessageAnswered(r, Empty)
    \/ ClockTick

SpecDebounce == InitJob /\ [][NextDebounce]_vars

\* SpecValidation: the requests of one GHL contact, complete or lacking one
\* of the fields the handler asks for (absent, or an empty e-mail), all
\* arriving within one reading of Date.now().
IncompleteBodies ==
    {[BodyA EXCEPT ![f] = Undefined] :
        f \in {"firstName", "lastName", "email", "ghlContactId"}}
    \cup {[BodyA EXCEPT !.email = Empty]}

NextValidation ==
    \/ \E r \in Requests, body \in {BodyA} \cup IncompleteBodies : Receive(r, body)
    \/ \E r \in Requests : HandlerStep(r)
    \/ \E r \in Requests : MessageAnswered(r, Empty)

SpecValidation == InitJob /\ [][NextValidation]_vars

\* SpecPhotos: complete requests of two GHL contacts that have up to
\* MaxSiblings photos each; Date.now() stands still.
NextPhotos ==
    \/ \E r \in Requests, body \in {BodyA, BodyB} : Receive(r, body)
    \/ \E r \in Requests :
          \/ QueueAnswered(r)
          \/ CompaniesAnswered(r)
          \/ CompanyCreated(r)
          \/ CompanyContactCreated(r)
          \/ MessageAnswered(r, Empty)
          \/ JobAnswered(r)
          \/ JobContactAnswered(r)
          \/ PhotosListedOf(r, MaxSiblings)
          \/ AttachmentsListedOf(r, MaxSiblings)
          \/ Downloaded(r)
          \/ FallbackDownloaded(r)
          \/ WriterSettled(r)
          \/ FileChecked(r)
          \/ AttachmentCreated(r)
          \/ FileUploaded(r)

SpecPhotos == InitJob /\ [][NextPhotos]_vars

\* SpecCreate: checkNewContacts cycle after cycle, against a ServiceM8 whose
\* contact Con1 has any of the first names, last names and e-mails below.
FirstNames == {<<"J">>, Empty, Undefined}
LastNames == {<<"A">>, Empty, Undefined}
Emails == {EmailA, Undefined}

ContactRecords ==
    {[uuid \in ContactIds |->
        IF uuid = Con1 THEN [first |-> f, last |-> l, email |-> e]
        ELSE ContactRecord(uuid)] :
     f \in FirstNames, l \in LastNames, e \in Emails}

InitCreate == \E records \in ContactRecords : InitOf(records)

NextCreate ==
    \/ Quiet /\ CronNewContacts
    \/ Quiet /\ TestContactCheck
    \/ \E i \in ConSlots :
          \/ StateLoaded(i)
          \/ ContactsFetched(i)
          \/ SearchAnswered(i)
          \/ CompanyAnswered(i)
          \/ CreateAnswered(i)
          \/ WriteOpened(i)
          \/ WriteFinished(i)

SpecCreate == InitCreate /\ [][NextCreate]_vars

\* SpecEdits: checkNewContacts cycle after cycle, while a ServiceM8 user
\* gives an e-mail to a contact the program has passed over for having
\* neither name nor e-mail.
ContactEdited(u) ==
    /\ u \in processedContacts
    /\ Ineligible(SourceContact(u))
    /\ contactRecords' = [contactRecords EXCEPT ![u].email = EmailA]
    /\ UNCHANGED <<pollVars, edited, returned, intakeVars, variantVars>>

NextEdits ==
    \/ \E u \in ContactIds : ContactEdited(u)
    \/ Quiet /\ CronNewContacts
    \/ Quiet /\ TestContactCheck
    \/ \E i \in ConSlots :
          \/ StateLoaded(i)
          \/ ContactsFetched(i)
          \/ SearchAnswered(i)
          \/ CompanyAnswered(i)
          \/ CreateAnswered(i)
          \/ WriteOpened(i)
          \/ WriteFinished(i)

SpecEdits == Init /\ [][NextEdits]_vars

\* SpecKinds: the cycles in sequence, against a ServiceM8 in which a job
\* may name, as its GHL contact, an id that reads like the uuid of the
\* company contact Con1.
KindDescriptions == {Marker \o Ghl1, Marker \o Con1}

\* What steps 5 to 7 make of these jobs.
KindReadings == JobReadingsOf(KindDescriptions)

NextKinds ==
    \/ Quiet /\ CronNewContacts
    \/ Quiet /\ TestContactCheck
    \/ Quiet /\ CronPaymentStatus
    \/ Quiet /\ TestPaymentCheck
    \/ \E i \in ConSlots :
          \/ StateLoaded(i)
          \/ ContactsFetched(i)
          \/ SearchAnswered(i)
          \/ CompanyAnswered(i)
          \/ CreateAnswered(i)
    \/ \E i \in PaySlots :
          \/ PaymentsFetched(i)
          \/ PaymentLookedUpOf(i, KindReadings)
          \/ WebhookAnswered(i)
    \/ \E i \in Slots :
          \/ WriteOpened(i)
          \/ WriteFinished(i)

SpecKinds == Init /\ [][NextKinds]_vars

\* checkPaymentStatus alone over jobs of every answer to the activity fetch
\* and every edit_date, one cycle at a time.
NextDates ==
    \/ Quiet /\ CronPaymentStatus
    \/ Quiet /\ TestPaymentCheck
    \/ \E i \in PaySlots :
          \/ PaymentsFetched(i)
          \/ PaymentLookedUpOf(i, DatedReadings)
          \/ WebhookAnswered(i)
          \/ WriteOpened(i)
          \/ WriteFinished(i)

SpecDates == InitPay /\ [][NextDates]_vars

\* One /ghl-create-job request at a time alongside checkPaymentStatus cycles
\* over jobs without description: every step of the handler may fall between
\* any two steps of a cycle.
\* What steps 5 to 7 make of the jobs without description.
UndescribedReadings == JobReadingsOf({Undefined})

NextAlongside ==
    \/ Receive(1, BodyA)
    \/ HandlerStep(1)
    \/ MessageAnswered(1, Empty)
    \/ Quiet /\ CronPaymentStatus
    \/ Quiet /\ TestPaymentCheck
    \/ \E i \in PaySlots :
          \/ PaymentsFetched(i)
          \/ PaymentLookedUpOf(i, UndescribedReadings)
          \/ WebhookAnswered(i)
          \/ WriteOpened(i)
          \/ WriteFinished(i)

SpecAlongside == InitPay /\ [][NextAlongside]_vars

\* The variant's cycle moves on; nothing else does.
SetVariant(rec) ==
    /\ variant' = rec
    /\ UNCHANGED <<pollVars, sourceVars, intakeVars>>

\* The outer catch of a routine: the cycle ends where it is.
VariantCaught(rec) == SetVariant([rec EXCEPT !.pc = "idle", !.batch = <<>>])

\* if (processedJobs.has(jobUuid)) continue, up to the next await; at the
\* end of the list checkNewJobs calls saveState, the others return.
RECURSIVE SkipProcessedVariantJobs(_, _)
SkipProcessedVariantJobs(rest, jobs) ==
    IF rest = <<>> THEN <<>>
    ELSE IF Head(rest) \in jobs THEN SkipProcessedVariantJobs(Tail(rest), jobs)
    ELSE rest

VariantProceed(rec, rest) ==
    LET todo == SkipProcessedVariantJobs(rest, rec.processedJobs)
    IN  IF todo # <<>>
        THEN SetVariant([rec EXCEPT !.pc = "payments", !.batch = todo])
        ELSE IF rec.routine = CheckNewJobs
        THEN SetVariant([rec EXCEPT !.pc = "save", !.batch = <<>>])
        ELSE SetVariant([rec EXCEPT !.pc = "idle", !.batch = <<>>])

\* A trigger fires: checkNewJobs begins with loadState, the others with the
\* job fetch.  The file that is deployed is the one of the first cycle.
VariantStarted(routine) ==
    /\ variant.pc = "idle"
    /\ variant.routine \in {NoRoutine, routine}
    /\ variant.runs < MaxCycles
    /\ SetVariant([variant EXCEPT !.routine = routine,
                                  !.runs = @ + 1,
                                  !.pc = IF routine = CheckNewJobs THEN "load" ELSE "jobs"])

\* loadState of the earlier variant (src/server.js lines 773-784)
VariantLoadedJobs(file, jobs) ==
    IF file.kind = "json" THEN file.state.processedJobs ELSE jobs

VariantStateLoaded ==
    /\ variant.pc = "load"
    /\ SetVariant([variant EXCEPT
                      !.pc = "jobs",
                      !.processedJobs = VariantLoadedJobs(variant.file, @)])

\* GET /job.json answered
VariantJobsFetched ==
    /\ variant.pc = "jobs"
    /\ \/ VariantCaught(variant)
       \/ \E jobs \in DistinctLists(JobIds, MaxBatch) : VariantProceed(variant, jobs)

\* Whether the routine goes on to the webhook for a job, given whether the
\* job has payment records, whether one of them is paid, and whether the
\* job carries the Review Request badge.
VariantEligible(routine, hasPayments, hasPaid, hasReviewBadge) ==
    IF routine = CheckPaymentStatus3
    THEN hasPayments /\ hasPaid /\ hasReviewBadge
    ELSE hasPayments

\* GET /jobpayment.json answered
VariantPaymentsFetched ==
    /\ variant.pc = "payments"
    /\ \/ VariantCaught(variant)
       \/ \E hasPayments, hasPaid, hasReviewBadge \in BOOLEAN :
            IF VariantEligible(variant.routine, hasPayments, hasPaid, hasReviewBadge)
            THEN SetVariant([variant EXCEPT !.pc = "company"])
            ELSE VariantProceed(variant, Tail(variant.batch))

\* GET /companycontact.json answered
VariantCompanyFetched ==
    /\ variant.pc = "company"
    /\ \/ VariantCaught(variant)
       \/ SetVariant([variant EXCEPT !.pc = "post"])

\* processedJobs after the webhook POST for jobUuid was answered 2xx or not:
\* checkNewJobs adds after its try/catch (src/server.js line 1030), part_003
\* inside the try after the POST (line 353), part_004 after the POST, which
\* is in no try of its own (line 213).
JobsAfterVariantWebhook(routine, jobs, jobUuid, answered) ==
    IF answered \/ routine = CheckNewJobs THEN jobs \cup {jobUuid} ELSE jobs

\* The webhook POST answered
VariantWebhookAnswered ==
    /\ variant.pc = "post"
    /\ \E answered \in BOOLEAN :
         LET jobUuid == Head(variant.batch)
             rec == [variant EXCEPT
                        !.processedJobs = JobsAfterVariantWebhook(variant.routine, @,
                                                                  jobUuid, answered),
                        !.delivered = IF answered THEN @ \cup {jobUuid} ELSE @]
         IN  IF ~answered /\ variant.routine = CheckPaymentStatus4
             THEN VariantCaught(rec)
             ELSE VariantProceed(rec, Tail(variant.batch))

\* saveState of the earlier variant (src/server.js lines 787-793): a failed
\* write throws into the outer catch.
VariantStateSaved ==
    /\ variant.pc = "save"
    /\ \/ VariantCaught([variant EXCEPT
                            !.file = FileJson(Snapshot(0, variant.processedJobs, {}))])
       \/ VariantCaught([variant EXCEPT !.file = FilePartial(variant.file)])

NextVariants ==
    \/ \E routine \in VariantRoutines : VariantStarted(routine)
    \/ VariantStateLoaded
    \/ VariantJobsFetched
    \/ VariantPaymentsFetched
    \/ VariantCompanyFetched
    \/ VariantWebhookAnswered
    \/ VariantStateSaved

\* The earlier variants start like the present file, with no state.json.
InitVariants == InitPay /\ stateFile = FileAbsent

SpecVariants == InitVariants /\ [][NextVariants]_vars

\* checkPaymentStatus, one cycle at a time and across restarts, over jobs
\* whose description names one and the same GHL contact: every payment has
\* the contact key Ghl1.
OneKeyDescriptions == {Marker \o Ghl1}

\* What steps 5 to 7 make of these jobs.
OneKeyReadings == JobReadingsOf(OneKeyDescriptions)

NextOneKey ==
    \/ Quiet /\ CronPaymentStatus
    \/ Quiet /\ TestPaymentCheck
    \/ \E i \in PaySlots :
          \/ PaymentsFetched(i)
          \/ PaymentLookedUpOf(i, OneKeyReadings)
          \/ WebhookAnswered(i)
          \/ WriteOpened(i)
          \/ WriteFinished(i)
    \/ Restart

SpecOneKey == InitPay /\ [][NextOneKey]_vars

(***************************************************************************)
(* The claims.                                                             *)
(***************************************************************************)
\* Cycle i takes a step that is not the process being restarted.
Steps(i) == restarts' = restarts /\ <<pc[i], batch[i], hist[i]>> # <<pc'[i], batch'[i], hist'[i]>>

\* C1: over any sequence of checkPaymentStatus cycles, restarts of the
\* process included, at most one webhook POST per payment uuid is answered
\* with success.
C1_AtMostOneWebhook == \A p \in PaymentIds : webhookOk[p] <= 1

\* C2: a contact that one checkNewContacts cycle handled (created, found in
\* GHL, or recorded as ineligible) and that the next cycle's fetch returns
\* again gets no GHL search and no create call in that next cycle.
C2_HandledNotSentAgain ==
    \A i \in ConSlots :
        pc[i] \in {"search", "company", "create"} => Head(batch[i]) \notin lastHandled

\* The five eligibility checks on what a lookup read: the job is completed,
\* its completion date is on or after the cutoff, the payment is active, above
\* zero and edited inside the window.
C3_Eligible(reading) ==
    ToLowerCase(reading.status) = StrCompletedLower /\ reading.datedAndPaid

\* Cycle i finishes the lookup of a payment whose job it could read.
C3_Looked(i) == pc[i] = "lookup" /\ Steps(i) /\ hist'[i].reading.status # Empty

C3_NothingForIneligible(i) ==
    ~C3_Eligible(hist'[i].reading) =>
        /\ pc'[i] # "post"
        /\ processedJobs' = processedJobs
        /\ processedContacts' = processedContacts

\* C3 as stated: a payment that fails an eligibility check triggers no
\* webhook and adds nothing to a dedup set; a payment a cycle fetches with
\* all checks passing gets the webhook POST.
C3_EligibleAlwaysSent ==
    [][\A i \in PaySlots :
          C3_Looked(i) =>
              /\ C3_NothingForIneligible(i)
              /\ C3_Eligible(hist'[i].reading) => pc'[i] = "post"]_vars

\* C3, amended: a payment that fails an eligibility check triggers no
\* webhook and adds nothing to a dedup set; a payment a cycle looks up with
\* all checks passing, whose job has a company and whose contact key is not
\* in processedContacts, gets the webhook POST.
C3_EligibleSentUnlessKeySeen ==
    [][\A i \in PaySlots :
          C3_Looked(i) =>
              /\ C3_NothingForIneligible(i)
              /\ C3_Eligible(hist'[i].reading) /\ hist'[i].reading.open => pc'[i] = "post"]_vars

\* A cycle has had the webhook of one payment answered and has then passed
\* over a payment that failed a check: only the first one is recorded in the
\* state it is about to save.
C3_Witness ==
    \E i \in PaySlots, p \in PaymentIds :
        /\ pc[i] = "saving"
        /\ hist[i].reading.status # Empty
        /\ ~C3_Eligible(hist[i].reading)
        /\ hist[i].posted = {p}
        /\ webhookOk[p] = 1
        /\ loc[i].snapshot.processedJobs = {p}

\* C4: when a Target call of a cycle fails for one entity, the cycle goes on
\* with the other entities, and the state saveState writes at its end holds
\* the dedup entries of every entity the cycle applied.
C4_SavedStateHasApplied ==
    [][\A i \in Slots :
          Steps(i) /\ hist'[i].targetFailed =>
              /\ pc'[i] # "idle" \/ pc[i] \in {"saving", "writing"}
              /\ pc'[i] = "saving" =>
                    /\ hist'[i].addedJobs \subseteq loc'[i].snapshot.processedJobs
                    /\ hist'[i].addedContacts \subseteq loc'[i].snapshot.processedContacts]_vars

\* C5: the create POST of a contact that has an e-mail is issued only after
\* a search that succeeded and matched nothing, and never while GHL holds a
\* contact of that e-mail, also when the search failed.
C5_CreateOnlyAfterNoMatch ==
    \A i \in ConSlots :
        LET email == SourceContact(Head(batch[i])).email
        IN  pc[i] = "create" /\ Truthy(email) =>
                /\ hist[i].search = "nomatch"
                /\ ~ExistingContact(ghl, email)

\* C6: inside one process no identifier ever leaves the in-memory sets
\* processedJobs and processedContacts, whatever loadState, saveState (a
\* failing write included) and the two routines do.
C6_MemoryOnlyGrows ==
    [][restarts' = restarts =>
          /\ processedJobs \subseteq processedJobs'
          /\ processedContacts \subseteq processedContacts']_vars

\* C7: across saves and restarts, every state written to state.json holds
\* all identifiers the state written before it held.
C7_FileOnlyGrows ==
    [][stateFile'.kind = "json" =>
          /\ stateFile.state.processedJobs \subseteq stateFile'.state.processedJobs
          /\ stateFile.state.processedContacts \subseteq stateFile'.state.processedContacts]_vars

\* C8: every cycle of either routine reads the State Store exactly once
\* (before its first dedup check) and writes it exactly once (after its last
\* entity).
C8_OneReadOneWrite ==
    [][\A i \in Slots :
          Steps(i) /\ pc'[i] = "idle" => hist[i].reads = 1 /\ hist[i].writes = 1]_vars

\* C9: a start request for a routine that has a cycle running is dropped:
\* there are never two cycles of the same routine in progress.
C9_OneCyclePerRoutine ==
    /\ Cardinality({i \in PaySlots : pc[i] # "idle"}) <= 1
    /\ Cardinality({i \in ConSlots : pc[i] # "idle"}) <= 1

\* C10: two checkPaymentStatus cycles that overlap and fetch the same
\* eligible payment send at most one webhook POST for it.
C10_OverlapSendsOnce ==
    \A i, j \in PaySlots :
        i # j /\ pc[i] # "idle" /\ pc[j] # "idle" => hist[i].posted \cap hist[j].posted = {}

\* C11: a loadState, whenever it runs relative to a saveState (during its
\* write, or after a crash or a failure of the write), never finds state.json
\* cut short or empty: it reads a whole snapshot, the previous or the new one.
C11_LoadSeesWholeSnapshot ==
    [][\A i \in ConSlots :
          pc[i] = "load" /\ Steps(i) => stateFile.kind # "partial"]_vars

\* C13: the lastPollTimestamp values that successive saveState calls write to
\* state.json never decrease, however the cycles of the two routines
\* interleave.
C13_TimestampNeverDecreases ==
    [][stateFile'.kind = "json" =>
          stateFile'.state.lastPollTimestamp >= stateFile.state.lastPollTimestamp]_vars

\* C12: when the saveState of a cycle has written lastPollTimestamp = c to
\* state.json, every ServiceM8 entity of the cycle's routine (contacts for
\* checkNewContacts, payments for checkPaymentStatus) that was edited before
\* c, so at or before c, has been returned by a list fetch of that routine.
C12_EditedBeforeCursorWasListed ==
    [][\A i \in Slots :
          pc[i] = "writing" /\ Steps(i) /\ stateFile'.kind = "json" =>
              \A e \in (IF i \in PaySlots THEN PaymentIds ELSE ContactIds) :
                  (\E t \in edited[e] : t < stateFile'.state.lastPollTimestamp)
                      => e \in returned]_vars

\* The Target call of cycle i (webhook POST, GHL create) is answered with a
\* failure for the entity at the head of its list.
C14_CallFails(i) ==
    /\ pc[i] \in {"post", "create"}
    /\ Steps(i)
    /\ Head(batch[i]) \in hist'[i].failed

\* The failed call records neither the uuid nor the contact key.
C14_NothingRecorded(i) ==
    /\ processedJobs' = processedJobs
    /\ Head(batch[i]) \notin processedContacts' \ processedContacts
    /\ loc[i].contactKey \notin processedContacts' \ processedContacts

\* The entities of the routine of cycle i.
C14_Entities(i) == IF i \in PaySlots THEN PaymentIds ELSE ContactIds

\* Between two cycles, and in a cycle up to the answer to its list fetch, the
\* entities of that routine whose call failed in the cycle before are in no
\* dedup set: the uuid check does not pass them over.
C14_FailedNotDeduped ==
    /\ Quiet => lastFailed \cap (processedJobs \cup processedContacts) = {}
    /\ \A i \in Slots :
          pc[i] = "fetch" =>
              lastFailed \cap C14_Entities(i) \cap (processedJobs \cup processedContacts) = {}

C15_LookupNeverEndsCycle ==
    [][\A i \in PaySlots :
          pc[i] = "lookup" /\ Steps(i) => pc'[i] \in {"post", "lookup", "saving"}]_vars

\* C16: a cycle whose list fetch fails ends there: it has made no Target
\* call, has taken no identifier out of the in-memory sets (nor added one),
\* and has not written state.json.
C16_FailedFetchChangesNothing ==
    [][\A i \in Slots :
          pc[i] = "fetch" /\ Steps(i) /\ pc'[i] = "idle" =>
              /\ hist[i].posted = {} /\ hist[i].search = "none" /\ ghl' = ghl
              /\ hist[i].addedJobs = {} /\ hist[i].addedContacts = {}
              /\ processedJobs' = processedJobs /\ processedContacts' = processedContacts
              /\ ~hist[i].loadDropped
              /\ hist[i].writes = 0 /\ stateFile' = stateFile]_vars

\* The text holds the marker 'GHL Contact ID: '.
C17_HoldsMarker(text) ==
    \E k \in 1..Len(text) :
        k + Len(Marker) - 1 <= Len(text) /\ SubSeq(text, k, k + Len(Marker) - 1) = Marker

\* C17: for every request with a non-empty ghlContactId and a free text
\* that does not hold the marker, what checkPaymentStatus extracts from the
\* job description /ghl-create-job built is that ghlContactId.
C17_ExtractReturnsId ==
    \A r \in Requests :
        /\ req[r].description # Empty
        /\ Truthy(req[r].body.ghlContactId)
        /\ ~C17_HoldsMarker(OrEmpty(req[r].body.jobDescription))
        => ExtractGhlContactId(req[r].description) = req[r].body.ghlContactId

\* C18: of two complete requests with the same ghlContactId that came in
\* less than the debounce window apart, the later one (either one when they
\* came in at the same time) was answered 200 'Job creation skipped
\* (duplicate request)' without any ServiceM8 call: at most one of the two
\* goes on to create a job.
C18_SecondIsSkipped ==
    \A a, b \in Requests :
        /\ a < b
        /\ req[b].pc # "free"
        /\ ~MissingFields(req[a].body) /\ ~MissingFields(req[b].body)
        /\ req[a].body.ghlContactId = req[b].body.ghlContactId
        /\ req[b].receivedAt - req[a].receivedAt < DebounceWindow
        => \E q \in {a, b} :
              /\ req[q].response = ResponseSkipped
              /\ ~req[q].calledSource
              /\ req[q].jobUuid = Undefined

\* Two requests of one GHL contact came in one clock unit apart: the first
\* has created its job, the second has been answered as a duplicate.
C18_Witness ==
    \E a, b \in Requests :
        /\ a < b
        /\ req[a].body.ghlContactId = req[b].body.ghlContactId
        /\ req[b].receivedAt = req[a].receivedAt + 1
        /\ req[a].jobUuid # Undefined
        /\ req[b].response = ResponseSkipped

\* C19: a request one of whose mandatory steps failed (the queue lookup, the
\* company lookup or creation with its contact, the job creation with its
\* job contact) is answered with an error status, never with a success.
C19_MandatoryFailureIsError ==
    \A r \in Requests :
        req[r].failed # "none" =>
            /\ req[r].pc = "done"
            /\ req[r].response.status = 500
            /\ req[r].response.jobUuid = Undefined

\* The 'Quotes - New' queue was not found for one request, which was
\* answered 500; a later request found it and has created its job.
C19_Witness ==
    \E a, b \in Requests :
        /\ req[a].failed = "queue"
        /\ req[a].response = ResponseNoQueue
        /\ req[b].failed = "none"
        /\ req[b].jobUuid # Undefined

\* C20: a request of which only optional steps failed (the GHL message
\* fetch, the photo listing, the download or the upload of a photo) is still
\* answered: its handler is never left waiting for good, and its answer is
\* 200 with the uuid of the job it created.
C20_OptionalFailureStillCreated ==
    \A r \in Requests :
        req[r].optionalFailed /\ req[r].failed = "none" =>
            /\ req[r].pc # "hung"
            /\ req[r].pc = "done" =>
                  /\ Truthy(req[r].jobUuid)
                  /\ req[r].response = ResponseCreated(req[r].jobUuid)

\* A body that lacks one of firstName, lastName, email, ghlContactId.
C21_Incomplete(body) ==
    \E f \in {"firstName", "lastName", "email", "ghlContactId"} :
        body[f] \in {Undefined, Empty}

\* C21: the step that receives a request lacking firstName, lastName, email
\* or ghlContactId answers it 400 'Missing required fields' at once, with no
\* outbound call issued for it, and leaves the debounce map as it was; the
\* request is never taken up again.
C21_IncompleteIsRejected ==
    [][\A r \in Requests :
          /\ req'[r].pc # "free" /\ C21_Incomplete(req'[r].body) =>
                /\ req'[r].pc = "done"
                /\ req'[r].response = ResponseMissing
                /\ ~req'[r].calledSource
          /\ req[r].pc = "free" /\ req'[r].pc # "free" /\ C21_Incomplete(req'[r].body) =>
                processedGhlContactIds' = processedGhlContactIds]_vars

\* A request without e-mail was answered 400, and a complete request of the
\* same GHL contact that came in at the same time was not taken for a
\* duplicate: it went on to ServiceM8.
C21_Witness ==
    \E a, b \in Requests :
        /\ a < b
        /\ C21_Incomplete(req[a].body)
        /\ req[a].response = ResponseMissing
        /\ req[b].body.ghlContactId = req[a].body.ghlContactId
        /\ req[b].receivedAt = req[a].receivedAt
        /\ req[b].calledSource

\* C22: whenever the handler is between two photos or has answered, none of
\* the temporary files of the photos whose processing has ended exists.
C22_NoTempFileLeft ==
    \A r \in Requests :
        req[r].pc \in {"download", "done"} => req[r].tempFiles = 0

\* C23: a photo is given up at its upload (POST /Attachment.json, then PUT
\* of the file) only after the upload has been attempted twice.
C23_UploadTriedTwice ==
    [][\A r \in Requests :
          /\ req[r].pc \in {"attach", "upload"}
          /\ req'[r].failedPhotos > req[r].failedPhotos
          => req[r].uploadTries = 2]_vars

\* C24: the step at which a photo is given up (its download, the test of
\* its content type, its file or its upload failed) while photos of the same
\* request remain takes the handler to the download of the next photo.
C24_SiblingsGoOn ==
    [][\A r \in Requests :
          /\ req'[r].failedPhotos > req[r].failedPhotos
          /\ req[r].photos > 1
          => /\ req'[r].pc = "download"
             /\ req'[r].photos = req[r].photos - 1]_vars

\* F and L joined by one space, no space being added for an empty part.
C25_Name(first, last) ==
    IF ~Truthy(first) THEN OrEmpty(last)
    ELSE IF ~Truthy(last) THEN first
    ELSE first \o <<" ">> \o last

\* GHL holds a contact with that e-mail (whatever its case and padding).
C25_GhlHolds(email) ==
    \E g \in ghl : Trim(ToLowerCase(OrEmpty(g.email))) = Trim(ToLowerCase(email))

\* C25: in a checkNewContacts cycle, for the contact u in hand (first name
\* F, last name L, e-mail E): when the GHL search is answered and GHL holds
\* no contact with E, the cycle goes on to the create POST of u; the POST is
\* issued once the company is answered; and when it is answered, u is not
\* taken up again in the cycle and, unless the POST failed, GHL holds a
\* contact whose name is F and L joined by one space without a space for an
\* empty part and whose e-mail is E, and u is in processedContacts.
C25_OneCreateWithNameAndEmail ==
    [][\A i \in ConSlots :
          Steps(i) /\ batch[i] # <<>> =>
             LET u == Head(batch[i])
                 c == SourceContact(u)
             IN  /\ pc[i] = "search" /\ ~C25_GhlHolds(c.email)
                    => pc'[i] = "company" /\ batch'[i] = batch[i]
                 /\ pc[i] = "company"
                    => pc'[i] = "create" /\ batch'[i] = batch[i]
                 /\ pc[i] = "create"
                    => /\ \A k \in DOMAIN batch'[i] : batch'[i][k] # u
                       /\ u \notin hist'[i].failed
                          => /\ [name |-> C25_Name(c.first, c.last),
                                 email |-> OrEmpty(c.email)] \in ghl'
                             /\ u \in processedContacts']_vars

\* A contact with a first name, no last name and an e-mail GHL did not hold
\* has been created in GHL under the first name alone, and is recorded.
C25_Witness ==
    /\ contactRecords[Con1] = [first |-> <<"J">>, last |-> Empty, email |-> EmailA]
    /\ [name |-> <<"J">>, email |-> EmailA] \in ghl
    /\ Cardinality(ghl) = 1
    /\ Con1 \in processedContacts

\* The contacts of the list a cycle still has to go through.
C26_Pending(list) == {list[k] : k \in DOMAIN list}

\* C26: a contact that has neither e-mail nor name when a checkNewContacts
\* cycle comes to it is put in processedContacts by the step that passes it
\* over, and a contact that started with neither (it can only have got an
\* e-mail after a cycle passed it over) is never the contact a cycle makes
\* its GHL calls for.
C26_IneligibleNeverSent ==
    [][\A i \in ConSlots :
          /\ Steps(i) =>
                \A u \in C26_Pending(batch[i]) \ C26_Pending(batch'[i]) :
                    Ineligible(SourceContact(u)) => u \in processedContacts'
          /\ pc'[i] \in {"search", "company", "create"} =>
                ~Ineligible(ContactRecord(Head(batch'[i])))]_vars

\* s is what is left of list t after some of its first elements.
C27_IsSuffix(s, t) == \E k \in 0..Len(t) : s = SubSeq(t, k + 1, Len(t))

\* C27: when GET /company.json fails for the contact in hand, the step
\* issues the create POST for that contact with no address in it; and the
\* step that takes the answer to that POST goes on with the contacts after
\* it: it stops at a later contact of the list or at saveState, every
\* contact it went past being in processedContacts.
C27_FailedLookupStillCreates ==
    [][\A i \in ConSlots :
          Steps(i) /\ batch[i] # <<>> =>
             /\ pc[i] = "company" /\ loc'[i].address = Undefined
                => /\ pc'[i] = "create"
                   /\ batch'[i] = batch[i]
                   /\ ~Truthy(CreatePayload(SourceContact(Head(batch[i])),
                                            loc'[i].address).address1)
             /\ pc[i] = "create" /\ loc[i].address = Undefined
                => /\ pc'[i] \in {"search", "company", "saving"}
                   /\ C27_IsSuffix(batch'[i], Tail(batch[i]))
                   /\ \A k \in 2..(Len(batch[i]) - Len(batch'[i])) :
                         batch[i][k] \in processedContacts']_vars

\* The company lookup of the first of two contacts has failed: the create
\* POST of that contact is under way with no address, the second contact
\* still to come.
C27_Witness ==
    \E i \in ConSlots :
        /\ pc[i] = "create"
        /\ loc[i].address = Undefined
        /\ batch[i] = <<Con1, Con2>>
        /\ ~Truthy(CreatePayload(SourceContact(Con1), loc[i].address).address1)

\* The keys checkPaymentStatus may look up in processedContacts.
C28_PaymentKeys ==
    {ContactKey(job.ghlContactId, clientEmail) :
        job \in KindReadings, clientEmail \in ClientEmails} \ {Empty}

\* C28: the step at which checkPaymentStatus records a delivered webhook
\* puts in no set an identifier checkNewContacts looks up (the uuid of a
\* contact), and a step at which checkNewContacts records a contact puts in
\* no set an identifier checkPaymentStatus looks up (the uuid of a payment,
\* the contact key of a job).
C28_SetsScopedByKind ==
    [][\A i \in Slots :
          Steps(i) =>
             LET added == (processedContacts' \ processedContacts)
                          \cup (processedJobs' \ processedJobs)
             IN  /\ i \in PaySlots /\ pc[i] = "post" => added \cap ContactIds = {}
                 /\ i \in ConSlots /\ pc[i] \in {"fetch", "search", "create"}
                    => added \cap (PaymentIds \cup C28_PaymentKeys) = {}]_vars

\* The end_date values among a job's activities.
C29_EndDates(dates) ==
    {dates.activities[k] : k \in 1..Len(dates.activities)} \ {NoDate}

\* The latest end_date among the activities, or the edit_date when no
\* activity has an end_date.
C29_LatestOrEdit(dates) ==
    IF C29_EndDates(dates) = {} THEN dates.editDate
    ELSE CHOOSE d \in C29_EndDates(dates) : \A e \in C29_EndDates(dates) : e <= d

\* C29 as the specification states it: a lookup goes on to the webhook only
\* for a job whose latest activity end_date, or whose edit_date when no
\* activity has an end_date, is on or after the cutoff date.
C29_SentOnlyWhenLatestEndOnOrAfter ==
    [][\A i \in PaySlots :
          (pc[i] = "lookup" /\ pc'[i] = "post")
             => C29_LatestOrEdit(hist'[i].reading.dates) >= Cutoff]_vars

\* C29: a lookup goes on to the webhook only for a job whose completion date
\* is on or after the cutoff date, the completion date being the latest
\* end_date among the activities the fetch answered, and the job's edit_date
\* when no activity has an end_date or when the activity fetch failed.
C29_SentOnlyWhenCompletedOnOrAfter ==
    [][\A i \in PaySlots :
          (pc[i] = "lookup" /\ pc'[i] = "post")
             => LET dates == hist'[i].reading.dates
                IN  IF dates.activitiesOk
                    THEN C29_LatestOrEdit(dates) >= Cutoff
                    ELSE dates.editDate >= Cutoff]_vars

\* A webhook is about to be sent for a job of two activities whose latest
\* end_date is on the cutoff date and whose edit_date is before it.
C29_Witness ==
    \E i \in PaySlots :
        /\ pc[i] = "post"
        /\ hist[i].reading.dates.activitiesOk
        /\ Len(hist[i].reading.dates.activities) = 2
        /\ C29_LatestOrEdit(hist[i].reading.dates) = Cutoff
        /\ Cutoff - 1 \in C29_EndDates(hist[i].reading.dates)
        /\ hist[i].reading.dates.editDate < Cutoff

\* The dedup entries a completed write put into state.json that the file did
\* not hold before the write began.
C30_NewJobs == stateFile'.state.processedJobs \ stateFile.state.processedJobs

C30_NewContacts == stateFile'.state.processedContacts \ stateFile.state.processedContacts

\* The cycle of slot i is inside its loop: it has neither finished nor begun
\* its saveState, and may still be abandoned.
C30_InLoop(i) == pc[i] \notin {"idle", "saving", "writing"}

\* C30: dedup entries added during a cycle reach state.json only through that
\* cycle's own saveState: when the saveState of one cycle completes its write,
\* no entry that the write newly puts into state.json is an entry that only
\* another cycle, still inside its loop, has added.
C30_OnlyOwnSaveWritesEntries ==
    [][\A j \in Slots :
          (pc[j] = "writing" /\ pc'[j] = "idle" /\ stateFile'.kind = "json")
             => \A i \in Slots \ {j} :
                   C30_InLoop(i)
                      => /\ C30_NewJobs \cap hist[i].addedJobs \subseteq hist[j].addedJobs
                         /\ C30_NewContacts \cap hist[i].addedContacts
                               \subseteq hist[j].addedContacts]_vars

\* A step of the /ghl-create-job handler: a request moves on while the
\* process keeps running.
C31_HandlerSteps == req' # req /\ restarts' = restarts

C32_AddedOnlyAfterDelivery == variant.processedJobs \subseteq variant.delivered

\* The kinds of object the attachment records of request r relate to.
C33_RelatedObjects(r) == {a.related_object : a \in req[r].attachments}

\* C33: a request that has relayed a photo has attached it in ServiceM8 both
\* to the job it created and to the company that owns the job.
C33_AttachedToJobAndCompany ==
    \A r \in Requests :
        req[r].relayed > 0
           => /\ [related_object |-> "job", related_object_uuid |-> req[r].jobUuid]
                    \in req[r].attachments
              /\ "company" \in C33_RelatedObjects(r)

\* A webhook has been delivered for a payment other than p.
C34_DeliveredForAnother(p) == \E q \in PaymentIds \ {p} : webhookOk[q] > 0

\* C34: where every payment has the contact key Ghl1, once a webhook has been
\* delivered for one payment no other payment goes on to the webhook POST,
\* and none is added to processedJobs.
C34_OneWebhookPerContactKey ==
    [][\A i \in PaySlots :
          /\ (pc[i] = "lookup" /\ pc'[i] = "post" /\ loc'[i].contactKey = Ghl1)
                => ~C34_DeliveredForAnother(Head(batch[i]))
          /\ \A p \in processedJobs' \ processedJobs :
                ~C34_DeliveredForAnother(p)]_vars

\* The jobs in ServiceM8 that request r created.
C35_JobsOf(r) == {j \in createdJobs : j.uuid = req[r].jobUuid}

\* C35: a request answered with status 500 has created no job in ServiceM8.
C35_ErrorMeansNoJob ==
    \A r \in Requests :
        (req[r].pc = "done" /\ req[r].response.status = 500) => C35_JobsOf(r) = {}

\* Request a came in less than 5 seconds before the present request of the
\* same GHL contact, and has created its job or is still on its way to it.
C36_RecentAndNotFailed(a, ghlContactId) ==
    /\ req[a].pc \notin {"free", "lost"}
    /\ req[a].body.ghlContactId = ghlContactId
    /\ clock - req[a].receivedAt < DebounceWindow
    /\ \/ \E j \in createdJobs : j.uuid = req[a].jobUuid
       \/ req[a].pc # "done"

\* C36: a request is answered with the duplicate-skip response only if an
\* earlier request of the same ghlContactId, received less than 5 seconds
\* before, has not failed: a request that ended without creating a job does
\* not make its retry a duplicate.
C36_SkippedOnlyAfterSuccess ==
    [][\A b \in Requests :
          (req[b].pc = "free" /\ req'[b].response = ResponseSkipped)
             => \E a \in Requests \ {b} :
                   C36_RecentAndNotFailed(a, req'[b].body.ghlContactId)]_vars

\* The companies in ServiceM8 that match a request body by e-mail or name.
C37_CompaniesFor(body) == {c \in companies : CompanyMatches(c, body)}

\* The requests received so far.
C37_Received == {r \in Requests : req[r].pc # "free"}

\* C37: requests that carry the e-mail and the name of BodyA under
\* ghlContactIds that all differ leave, in whatever interleaving, at most
\* one company of that name in ServiceM8.
C37_AtMostOneCompany ==
    (/\ \A r \in C37_Received :
           /\ req[r].body.email = BodyA.email
           /\ req[r].body.firstName = BodyA.firstName
           /\ req[r].body.lastName = BodyA.lastName
     /\ \A a, b \in C37_Received :
           a # b => req[a].body.ghlContactId # req[b].body.ghlContactId)
       => Cardinality(C37_CompaniesFor(BodyA)) <= 1

====
